---------------------------- MODULE Spec2Model ----------------------------
(***************************************************************************)
(* A model of the canvas renderer of my-okzest-backend                     *)
(* (src/services/imageGenerator.js): generateCanvasImage and its two       *)
(* element routines drawTextElement and drawImageElement, driven through   *)
(* one render call from createCanvas to toBuffer.                          *)
(*                                                                         *)
(* JavaScript values are modelled by what the code does with them:         *)
(*   - a string is the sequence of its characters, so "" is << >>;         *)
(*   - an optional string is [defined, str], undefined being Undefined;    *)
(*   - an optional number is [defined, num];                               *)
(*   - a double is an exact fraction <<n, d>> with d >= 0 in lowest terms, *)
(*     where <<1,0>> is Infinity, <<-1,0>> is -Infinity and <<0,0>> is NaN *)
(*     (rounding of doubles is below the 1/256 pixel grid of the raster    *)
(*     library and is not modelled).                                       *)
(***************************************************************************)
EXTENDS Integers, Sequences, FiniteSets, TLC

----------------------------------------------------------------------------
(* Doubles as exact fractions *)

Abs(n) == IF n < 0 THEN -n ELSE n

Sign(n) == IF n < 0 THEN -1 ELSE IF n > 0 THEN 1 ELSE 0

RECURSIVE GCD(_, _)
GCD(a, b) == IF b = 0 THEN a ELSE GCD(b, a % b)

RNorm(n, d) ==
  IF d = 0 THEN <<Sign(n), 0>>
  ELSE LET g == GCD(Abs(n), Abs(d))
           s == Sign(d)
       IN  <<(s * n) \div g, (s * d) \div g>>

R(n) == <<n, 1>>

NaN == <<0, 0>>

IsNaN(a) == a = NaN

IsFinite(a) == a[2] # 0

RAdd(a, b) ==
  IF a[2] = 0 /\ b[2] = 0
  THEN (IF a = b THEN a ELSE NaN)
  ELSE RNorm(a[1] * b[2] + b[1] * a[2], a[2] * b[2])

RNeg(a) == <<-a[1], a[2]>>

RSub(a, b) == RAdd(a, RNeg(b))

RMul(a, b) == RNorm(a[1] * b[1], a[2] * b[2])

RDiv(a, b) == RNorm(a[1] * b[2], a[2] * b[1])

RLe(a, b) ==
  /\ ~IsNaN(a)
  /\ ~IsNaN(b)
  /\ IF a[2] = 0 /\ b[2] = 0 THEN a[1] <= b[1]
     ELSE a[1] * b[2] <= b[1] * a[2]

RLt(a, b) == RLe(a, b) /\ a # b

MathMax(a, b) ==
  IF IsNaN(a) \/ IsNaN(b) THEN NaN ELSE IF RLe(a, b) THEN b ELSE a

MathMin(a, b) ==
  IF IsNaN(a) \/ IsNaN(b) THEN NaN ELSE IF RLe(a, b) THEN a ELSE b

----------------------------------------------------------------------------
(* Optional values and the || operator *)

Undefined == [defined |-> FALSE, str |-> << >>]

Str(s) == [defined |-> TRUE, str |-> s]

UndefNum == [defined |-> FALSE, num |-> 0]

Num(n) == [defined |-> TRUE, num |-> n]

\* a string operand of ||, &&, !, if: undefined and "" are falsy
Truthy(v) == v.defined /\ v.str # << >>

\* v || w for optional strings
OrElse(v, w) == IF Truthy(v) THEN v ELSE w

\* v || d for an optional number v and a number d: undefined and 0 are falsy
OrNum(v, d) == IF v.defined /\ v.num # 0 THEN v.num ELSE d

\* v || d for enumerated strings, "undefined" standing for a missing field
OrTag(v, d) == IF v = "undefined" \/ v = "" THEN d ELSE v

----------------------------------------------------------------------------
(* String functions *)

\* the index of the first sep in s at or after i, Len(s) + 1 when there is none
RECURSIVE IndexFrom(_, _, _)
IndexFrom(s, sep, i) ==
  IF i > Len(s) THEN Len(s) + 1
  ELSE IF s[i] = sep THEN i
  ELSE IndexFrom(s, sep, i + 1)

\* String.prototype.split with a one-character separator
RECURSIVE Split(_, _)
Split(s, sep) ==
  LET k == IndexFrom(s, sep, 1)
  IN  IF k > Len(s) THEN <<s>>
      ELSE <<SubSeq(s, 1, k - 1)>> \o Split(SubSeq(s, k + 1, Len(s)), sep)

Includes(s, c) == \E i \in 1..Len(s) : s[i] = c

\* String.prototype.includes with a string argument
IncludesString(s, sub) ==
  \E i \in 0..(Len(s) - Len(sub)) : SubSeq(s, i + 1, i + Len(sub)) = sub

Whitespace == {" ", "\t", "\n"}

\* s without its leading whitespace
RECURSIVE SkipWhitespace(_)
SkipWhitespace(s) ==
  IF s = << >> \/ s[1] \notin Whitespace THEN s ELSE SkipWhitespace(Tail(s))

\* s.replace(/\s+/g, r): every run of whitespace becomes r
RECURSIVE ReplaceWhitespace(_, _)
ReplaceWhitespace(s, r) ==
  IF s = << >> THEN << >>
  ELSE IF s[1] \in Whitespace THEN r \o ReplaceWhitespace(SkipWhitespace(s), r)
  ELSE <<s[1]>> \o ReplaceWhitespace(Tail(s), r)

UpperCase == <<"A", "B", "C", "D", "E", "F", "G", "H", "I", "J", "K", "L", "M",
               "N", "O", "P", "Q", "R", "S", "T", "U", "V", "W", "X", "Y", "Z">>

LowerCase == <<"a", "b", "c", "d", "e", "f", "g", "h", "i", "j", "k", "l", "m",
               "n", "o", "p", "q", "r", "s", "t", "u", "v", "w", "x", "y", "z">>

\* String.prototype.toLowerCase
ToLowerCase(s) ==
  [i \in 1..Len(s) |->
     IF \E j \in 1..Len(UpperCase) : UpperCase[j] = s[i]
     THEN LowerCase[CHOOSE j \in 1..Len(UpperCase) : UpperCase[j] = s[i]]
     ELSE s[i]]


----------------------------------------------------------------------------
(* The 2D context and the log of draw calls *)

Rect(x, y, w, h) == [x |-> x, y |-> y, w |-> w, h |-> h]

NoClip == [on |-> FALSE, rect |-> Rect(R(0), R(0), R(0), R(0))]

RectFinite(r) == IsFinite(r.x) /\ IsFinite(r.y) /\ IsFinite(r.w) /\ IsFinite(r.h)

\* the common part of two finite rectangles (width and height 0 when disjoint)
RectIntersect(a, b) ==
  LET x1 == MathMax(a.x, b.x)
      y1 == MathMax(a.y, b.y)
      x2 == MathMin(RAdd(a.x, a.w), RAdd(b.x, b.w))
      y2 == MathMin(RAdd(a.y, a.h), RAdd(b.y, b.h))
  IN  Rect(x1, y1, MathMax(R(0), RSub(x2, x1)), MathMax(R(0), RSub(y2, y1)))

\* a inside b
RectInside(a, b) ==
  /\ RLe(b.x, a.x)
  /\ RLe(b.y, a.y)
  /\ RLe(RAdd(a.x, a.w), RAdd(b.x, b.w))
  /\ RLe(RAdd(a.y, a.h), RAdd(b.y, b.h))

Font(weight, size, family) == [weight |-> weight, size |-> size, family |-> family]

\* canvas.getContext('2d'): the attributes of a fresh context
NewContext ==
  [fillStyle |-> "#000000", strokeStyle |-> "#000000",
   font |-> Font("normal", 10, "sans-serif"),
   textAlign |-> "start", textBaseline |-> "alphabetic", clip |-> NoClip]

\* ctx.beginPath(); ctx.rect(r); ctx.clip(): the clip region only ever shrinks
Clip(c, r) ==
  [c EXCEPT !.clip = [on |-> TRUE,
                      rect |-> IF c.clip.on THEN RectIntersect(c.clip.rect, r) ELSE r]]

\* one draw call: the element it belongs to (0: the canvas itself), the call,
\* its rectangle (for fillText its anchor, with no extent), its text or image
\* argument, and the context attributes in force when it was issued
DrawOp(el, kind, r, arg, c) == [el |-> el, kind |-> kind, rect |-> r, arg |-> arg, ctx |-> c]

FillRect(el, c, x, y, w, h) == DrawOp(el, "fillRect", Rect(x, y, w, h), << >>, c)

StrokeRect(el, c, x, y, w, h) == DrawOp(el, "strokeRect", Rect(x, y, w, h), << >>, c)

FillText(el, c, text, x, y) == DrawOp(el, "fillText", Rect(x, y, R(0), R(0)), text, c)

DrawImage(el, c, img, x, y, w, h) == DrawOp(el, "drawImage", Rect(x, y, w, h), img.src, c)

\* the part of the canvas plane a rectangle call can change: its rectangle cut
\* by the clip in force; a drawImage with a non-finite argument changes nothing
Painted(op) ==
  IF ~RectFinite(op.rect) THEN Rect(R(0), R(0), R(0), R(0))
  ELSE IF op.ctx.clip.on THEN RectIntersect(op.rect, op.ctx.clip.rect)
  ELSE op.rect

\* ctx.measureText(s).width: every character advances by one em of the font
MeasureText(c, s) == Len(s) * c.font.size

\* the ascent of Arial as a part of the font size: 1854 of 2048 units per em
ArialAscent == RDiv(R(1854), R(2048))

\* where the alphabetic baseline of a fillText call lies: at the y passed for
\* textBaseline = 'alphabetic', one ascent below it for textBaseline = 'top'
BaselineY(op) ==
  IF op.ctx.textBaseline = "top"
  THEN RAdd(op.rect.y, RMul(R(op.ctx.font.size), ArialAscent))
  ELSE op.rect.y

----------------------------------------------------------------------------
(* String literals of the source *)

ErrorLoadingText == <<"E", "r", "r", "o", "r", " ", "l", "o", "a", "d", "i", "n", "g", " ", "t", "e", "x", "t">>

ImageLabel == <<"I", "m", "a", "g", "e">>

FailedToLoadLabel == <<"F", "a", "i", "l", "e", "d", " ", "t", "o", " ", "l", "o", "a", "d">>

ArialStack == "Arial, DejaVu Sans, Liberation Sans, sans-serif"

\* the template literal `{${element.variableName}}`
Placeholder(variableName) == <<"{">> \o variableName \o <<"}">>

----------------------------------------------------------------------------
(* drawTextElement *)

\* the default content taken before the runtime value
ResolveTextContentFirst(element, variableValue) ==
  OrElse(OrElse(element.data.content, variableValue),
         Str(Placeholder(element.variableName))).str

\* const text = variableValue || element.data.content || `{${element.variableName}}`
ResolveText(element, variableValue) ==
  OrElse(OrElse(variableValue, element.data.content),
         Str(Placeholder(element.variableName))).str

\* const fontFamily = element.data.fontFamily || 'Arial': read at line 76 and
\* not used after it
FontFamilyOf(element) == OrElse(element.data.fontFamily, Str(<<"A", "r", "i", "a", "l">>)).str

\* the context after the four assignments that open the try block
TextContext(c, element) ==
  [c EXCEPT !.font = Font(OrTag(element.data.fontWeight, "normal"),
                          OrNum(element.data.fontSize, 16), ArialStack),
            !.fillStyle = OrTag(element.data.color, "#000000"),
            !.textAlign = OrTag(element.data.textAlign, "left"),
            !.textBaseline = "top"]

\* the loop measuring the word alone, not the line the word would make
RECURSIVE WrapLoopMeasuresWord(_, _, _, _, _, _)
WrapLoopMeasuresWord(c, words, i, currentLine, lines, maxWidth) ==
  IF i > Len(words) THEN Append(lines, currentLine)
  ELSE LET word == words[i]
           width == MeasureText(c, word)
       IN  IF width < maxWidth
           THEN WrapLoopMeasuresWord(c, words, i + 1, currentLine \o <<" ">> \o word, lines, maxWidth)
           ELSE WrapLoopMeasuresWord(c, words, i + 1, word, Append(lines, currentLine), maxWidth)

\* the loop keeping a word on the line when the line comes to exactly maxWidth
RECURSIVE WrapLoopInclusive(_, _, _, _, _, _)
WrapLoopInclusive(c, words, i, currentLine, lines, maxWidth) ==
  IF i > Len(words) THEN Append(lines, currentLine)
  ELSE LET word == words[i]
           width == MeasureText(c, currentLine \o <<" ">> \o word)
       IN  IF width <= maxWidth
           THEN WrapLoopInclusive(c, words, i + 1, currentLine \o <<" ">> \o word, lines, maxWidth)
           ELSE WrapLoopInclusive(c, words, i + 1, word, Append(lines, currentLine), maxWidth)

RECURSIVE WrapLoop(_, _, _, _, _, _)
WrapLoop(c, words, i, currentLine, lines, maxWidth) ==
  IF i > Len(words) THEN Append(lines, currentLine)
  ELSE LET word == words[i]
           width == MeasureText(c, currentLine \o <<" ">> \o word)
       IN  IF width < maxWidth
           THEN WrapLoop(c, words, i + 1, currentLine \o <<" ">> \o word, lines, maxWidth)
           ELSE WrapLoop(c, words, i + 1, word, Append(lines, currentLine), maxWidth)

\* the loop started at the first word (i = 0), which is the current line already
WrapTextFromFirstWord(c, text, maxWidth) ==
  LET words == Split(text, " ")
  IN  WrapLoop(c, words, 1, words[1], << >>, maxWidth)

WrapText(c, text, maxWidth) ==
  LET words == Split(text, " ")
  IN  WrapLoop(c, words, 2, words[1], << >>, maxWidth)

\* lines.forEach(...): a hard-break segment wider than maxWidth is wrapped
RECURSIVE WrapAll(_, _, _, _)
WrapAll(c, lines, k, maxWidth) ==
  IF k > Len(lines) THEN << >>
  ELSE (IF MeasureText(c, lines[k]) > maxWidth
        THEN WrapText(c, lines[k], maxWidth)
        ELSE <<lines[k]>>) \o WrapAll(c, lines, k + 1, maxWidth)

LayoutLines(c, text, maxWidth) ==
  LET lines == IF Includes(text, "\n") THEN Split(text, "\n") ELSE <<text>>
  IN  WrapAll(c, lines, 1, maxWidth)

\* the same forEach, segment by segment: the hard-break segment, whether it
\* is wider than maxWidth, and the lines it contributes to allLines
LaidSegments(c, text, maxWidth) ==
  LET lines == IF Includes(text, "\n") THEN Split(text, "\n") ELSE <<text>>
  IN  [k \in 1..Len(lines) |->
         LET wide == MeasureText(c, lines[k]) > maxWidth
         IN  [segment |-> lines[k], wide |-> wide,
              lines |-> IF wide THEN WrapText(c, lines[k], maxWidth) ELSE <<lines[k]>>]]

\* ctx.fillText(line, element.x, element.y + (index * fontSize * 1.2)), index from 0
LineY(element, index, fontSize) ==
  RAdd(R(element.y), RMul(R(index * fontSize), <<6, 5>>))

\* drawTextElement without its catch block: the exception leaves the routine
TextFallbackRethrow(el, c, element) == [ctx |-> c, ops |-> << >>, thrown |-> TRUE]

\* the catch block of drawTextElement
TextFallback(el, c, element) ==
  LET c1 == [c EXCEPT !.fillStyle = "#ff0000",
                      !.font = Font("normal", 16, "Arial"),
                      !.textAlign = "left"]
  IN  [ctx |-> c1,
       ops |-> <<FillText(el, c1, ErrorLoadingText, R(element.x), R(element.y))>>,
       thrown |-> FALSE]

\* failAt says where the try block throws: 0 while the lines are measured,
\* k >= 1 in the k-th fillText, more than the number of lines nowhere
DrawTextElement(el, c, element, variableValue, failAt) ==
  LET text == ResolveText(element, variableValue)
      fontSize == OrNum(element.data.fontSize, 16)
      c1 == TextContext(c, element)
      maxWidth == OrNum(element.data.maxWidth, 400)
      allLines == LayoutLines(c1, text, maxWidth)
      drawn == IF failAt = 0 THEN 0
               ELSE IF failAt > Len(allLines) THEN Len(allLines) ELSE failAt - 1
      lineOps == [k \in 1..drawn |->
                    FillText(el, c1, allLines[k], R(element.x), LineY(element, k - 1, fontSize))]
  IN  IF failAt > Len(allLines)
      THEN [ctx |-> c1, ops |-> lineOps, thrown |-> FALSE]
      ELSE LET f == TextFallback(el, c1, element)
           IN  [f EXCEPT !.ops = lineOps \o f.ops]

\* the number of lines drawTextElement lays out for an element
LineCount(c, element, variableValue) ==
  Len(LayoutLines(TextContext(c, element), ResolveText(element, variableValue),
                  OrNum(element.data.maxWidth, 400)))

----------------------------------------------------------------------------
(* drawImageElement *)

\* const imageSrc = variableValue || element.data.src
ResolveSrc(element, variableValue) == OrElse(variableValue, element.data.src)

\* the placeholder drawn with the width and height defaults exchanged
ImagePlaceholderSwapped(el, c, element) ==
  LET x == R(element.x)
      y == R(element.y)
      w == R(OrNum(element.data.width, 100))
      h == R(OrNum(element.data.height, 150))
      c1 == [c EXCEPT !.fillStyle = "#f0f0f0"]
      c2 == [c1 EXCEPT !.strokeStyle = "#cccccc"]
      c3 == [c2 EXCEPT !.fillStyle = "#666666",
                       !.font = Font("normal", 14, "Arial"),
                       !.textAlign = "center"]
  IN  [ctx |-> c3,
       ops |-> <<FillRect(el, c1, x, y, w, h),
                 StrokeRect(el, c2, x, y, w, h),
                 FillText(el, c3, ImageLabel, RAdd(x, RDiv(w, R(2))), RAdd(y, RDiv(h, R(2))))>>,
       thrown |-> FALSE]

\* the branch taken when imageSrc is falsy
ImagePlaceholder(el, c, element) ==
  LET x == R(element.x)
      y == R(element.y)
      w == R(OrNum(element.data.width, 150))
      h == R(OrNum(element.data.height, 100))
      c1 == [c EXCEPT !.fillStyle = "#f0f0f0"]
      c2 == [c1 EXCEPT !.strokeStyle = "#cccccc"]
      c3 == [c2 EXCEPT !.fillStyle = "#666666",
                       !.font = Font("normal", 14, "Arial"),
                       !.textAlign = "center"]
  IN  [ctx |-> c3,
       ops |-> <<FillRect(el, c1, x, y, w, h),
                 StrokeRect(el, c2, x, y, w, h),
                 FillText(el, c3, ImageLabel, RAdd(x, RDiv(w, R(2))), RAdd(y, RDiv(h, R(2))))>>,
       thrown |-> FALSE]

\* drawImageElement without its catch block: the rejection leaves the routine
ImageFallbackRethrow(el, c, element) == [ctx |-> c, ops |-> << >>, thrown |-> TRUE]

\* the catch block drawing the no-source placeholder instead of the error rectangle
ImageFallbackAsPlaceholder(el, c, element) == ImagePlaceholder(el, c, element)

\* the catch block of drawImageElement
ImageFallback(el, c, element) ==
  LET x == R(element.x)
      y == R(element.y)
      w == R(OrNum(element.data.width, 150))
      h == R(OrNum(element.data.height, 100))
      c1 == [c EXCEPT !.fillStyle = "#ffebee"]
      c2 == [c1 EXCEPT !.strokeStyle = "#f44336"]
      c3 == [c2 EXCEPT !.fillStyle = "#f44336",
                       !.font = Font("normal", 12, "Arial"),
                       !.textAlign = "center"]
  IN  [ctx |-> c3,
       ops |-> <<FillRect(el, c1, x, y, w, h),
                 StrokeRect(el, c2, x, y, w, h),
                 FillText(el, c3, FailedToLoadLabel, RAdd(x, RDiv(w, R(2))), RAdd(y, RDiv(h, R(2))))>>,
       thrown |-> FALSE]

\* const objectFit = element.data.objectFit || 'cover'
ObjectFit(element) == OrTag(element.data.objectFit, "cover")

\* ctx.restore(): back to the attributes ctx.save() stored
Restore(saved, current) == saved

\* the scaled size and the offsets of the cover and contain branches
FitGeometry(width, height, img, scale) ==
  LET scaledWidth == RMul(R(img.width), scale)
      scaledHeight == RMul(R(img.height), scale)
  IN  [scaledWidth |-> scaledWidth, scaledHeight |-> scaledHeight,
       offsetX |-> RDiv(RSub(R(width), scaledWidth), R(2)),
       offsetY |-> RDiv(RSub(R(height), scaledHeight), R(2))]

\* the smaller of the two ratios where cover takes the larger
CoverScaleMin(width, height, img) ==
  MathMin(RDiv(R(width), R(img.width)), RDiv(R(height), R(img.height)))

CoverScale(width, height, img) ==
  MathMax(RDiv(R(width), R(img.width)), RDiv(R(height), R(img.height)))

\* the larger of the two ratios where contain takes the smaller
ContainScaleMax(width, height, img) ==
  MathMax(RDiv(R(width), R(img.width)), RDiv(R(height), R(img.height)))

ContainScale(width, height, img) ==
  MathMin(RDiv(R(width), R(img.width)), RDiv(R(height), R(img.height)))

\* the statements after `await loadImage(imageSrc)` has given img
DrawLoadedImage(el, c, element, img) ==
  LET x == R(element.x)
      y == R(element.y)
      width == OrNum(element.data.width, img.width)
      height == OrNum(element.data.height, img.height)
      objectFit == ObjectFit(element)
  IN  IF objectFit = "cover"
      THEN LET g == FitGeometry(width, height, img, CoverScale(width, height, img))
               c1 == Clip(c, Rect(x, y, R(width), R(height)))
           IN  [ctx |-> Restore(c, c1),
                ops |-> <<DrawImage(el, c1, img, RAdd(x, g.offsetX), RAdd(y, g.offsetY),
                                    g.scaledWidth, g.scaledHeight)>>,
                thrown |-> FALSE]
      ELSE IF objectFit = "contain"
      THEN LET g == FitGeometry(width, height, img, ContainScale(width, height, img))
           IN  [ctx |-> c,
                ops |-> <<DrawImage(el, c, img, RAdd(x, g.offsetX), RAdd(y, g.offsetY),
                                    g.scaledWidth, g.scaledHeight)>>,
                thrown |-> FALSE]
      ELSE [ctx |-> c,
            ops |-> <<DrawImage(el, c, img, x, y, R(width), R(height))>>,
            thrown |-> FALSE]

----------------------------------------------------------------------------
(* The inputs of one render call *)

\* the longest template, and the longest one rendered with a width or height
\* that is not positive
MaxElements == 2

MaxElementsBadSize == 1

NameA == <<"a">>

NameB == <<"b">>

UrlOne == <<"u", "1">>

UrlTwo == <<"u", "2">>

Data(type, content, fontSize, maxWidth, textAlign, src, width, height, objectFit) ==
  [type |-> type, content |-> content, fontSize |-> fontSize, fontFamily |-> Undefined,
   fontWeight |-> "undefined", color |-> "undefined", textAlign |-> textAlign,
   maxWidth |-> maxWidth, src |-> src, width |-> width, height |-> height,
   objectFit |-> objectFit]

TextElement(variableName, x, y, content, fontSize, maxWidth, textAlign) ==
  [variableName |-> variableName, x |-> x, y |-> y,
   data |-> Data("text", content, fontSize, maxWidth, textAlign,
                 Undefined, UndefNum, UndefNum, "undefined")]

ImageElement(variableName, x, y, src, width, height, objectFit) ==
  [variableName |-> variableName, x |-> x, y |-> y,
   data |-> Data("image", Undefined, UndefNum, UndefNum, "undefined",
                 src, width, height, objectFit)]

\* an element with data.fontFamily set
WithFontFamily(element, fontFamily) == [element EXCEPT !.data.fontFamily = Str(fontFamily)]

PlayfairDisplay == <<"P", "l", "a", "y", "f", "a", "i", "r", " ", "D", "i", "s", "p", "l", "a", "y", ",", " ", "s", "e", "r", "i", "f">>

Helvetica == <<"H", "e", "l", "v", "e", "t", "i", "c", "a", ",", " ", "s", "a", "n", "s", "-", "s", "e", "r", "i", "f">>

ShapeElement(variableName, x, y) ==
  [variableName |-> variableName, x |-> x, y |-> y,
   data |-> Data("shape", Undefined, UndefNum, UndefNum, "undefined",
                 Undefined, UndefNum, UndefNum, "undefined")]

\* the elements a template is built from
ElementPool ==
  { TextElement(NameA, 1, 2, Str(<<"H", "i">>), UndefNum, UndefNum, "undefined"),
    WithFontFamily(TextElement(NameA, 3, 1, Undefined, Num(20), Num(100), "center"),
                   PlayfairDisplay),
    WithFontFamily(TextElement(NameA, 2, 3, Str(<< >>), Num(20), UndefNum, "right"),
                   Helvetica),
    TextElement(NameB, 0, 4, Str(<<"a", "b", " ", "c", "d", "\n", "e", " ", "f", "g", "h", "i", "j">>),
                Num(20), Num(100), "left"),
    ImageElement(NameA, 1, 1, Undefined, Num(4), UndefNum, "undefined"),
    ImageElement(NameB, 0, 1, Str(UrlOne), Num(4), Num(2), "cover"),
    ImageElement(NameB, 1, 0, Str(UrlOne), Num(4), Num(2), "contain"),
    ImageElement(NameB, 2, 2, Str(UrlOne), Num(4), Num(2), "undefined"),
    ImageElement(NameA, 3, 0, Str(UrlOne), UndefNum, Num(2), "fill"),
    ShapeElement(NameB, 1, 3) }

Templates == UNION { [1..n -> ElementPool] : n \in 0..MaxElements }

Config(width, height, backgroundImage) ==
  [width |-> width, height |-> height, backgroundImage |-> backgroundImage]

Configs ==
  { Config(Num(6), Num(4), Str(UrlTwo)),
    Config(Num(0), Num(4), Str(<< >>)),
    Config(Num(6), Num(-1), Undefined) }

\* params[name] is Undefined for a key that is not in the map
ParamMaps ==
  { [n \in {NameA, NameB} |-> IF n = NameA THEN a ELSE Undefined] :
      a \in {Undefined, Str(<< >>), Str(<<"Y", "o">>)} }

\* the natural sizes loadImage may report for a decoded image
NaturalSizes == { <<2, 2>>, <<8, 2>>, <<0, 0>> }

Image(src, size) == [src |-> src, width |-> size[1], height |-> size[2]]

----------------------------------------------------------------------------
(* generateCanvasImage as a state machine; one action per run between awaits *)

\* config, elements, params: the arguments of the call; pc, idx: where the call
\* stands; canvas, ctx: the surface and its context; ops: the draw calls issued
\* so far; outcomes: what happened to each element the loop has finished with
VARIABLES config, elements, params, pc, idx, canvas, ctx, ops, outcomes

renderVars == <<config, elements, params, pc, idx, canvas, ctx, ops, outcomes>>

\* the text layout on its own: text, fontSize, maxWidth are its arguments,
\* laid the result per hard-break segment, lines the line list, relaid the
\* line list of the newline-joined lines, stage how far it has come
VARIABLES text, fontSize, maxWidth, laid, lines, relaid, stage

layoutVars == <<text, fontSize, maxWidth, laid, lines, relaid, stage>>

\* the FontManager singleton: registeredFonts is its Set, fontFiles the .ttf
\* files in its fonts directory, registrations the registerFont invocations
\* (running or finished), ensured the ensureFontAvailable calls made and what
\* they returned, fetched the font files whose download was started and the
\* registration that started it
VARIABLES registeredFonts, fontFiles, registrations, ensured, fetched

fontVars == <<registeredFonts, fontFiles, registrations, ensured, fetched>>

\* a second generateCanvasImage call: running is the call (1 or 2) whose
\* locals the render variables hold, parked the locals of the other call
VARIABLES running, parked

twoVars == <<running, parked>>

\* the tables of the scheduler (rows by id), the minutes the cron job has
\* fired, its checkScheduledActivations invocations, the activateTemplateGroup
\* invocations and the schedules executeSchedule has activated the group of
VARIABLES template_groups, template_schedules, clock, ticks, activations, executions

schedVars == <<template_groups, template_schedules, clock, ticks, activations, executions>>

\* the POST /schedules requests
VARIABLES posts

postVars == <<posts>>

\* the tables of the templates and the requests to the template routes
\* (uploads: the files convertBase64ToFile has written)
VARIABLES canvas_templates, canvas_variables, calls, uploads

canvasVars == <<canvas_templates, canvas_variables, calls, uploads>>

storeVars == <<schedVars, postVars, canvasVars>>

vars == <<renderVars, layoutVars, fontVars, twoVars, storeVars>>

SchedIdle ==
  /\ template_groups = << >>
  /\ template_schedules = << >>
  /\ clock = 0
  /\ ticks = << >>
  /\ activations = << >>
  /\ executions = {}

PostIdle == posts = << >>

CanvasIdle ==
  /\ canvas_templates = << >>
  /\ canvas_variables = {}
  /\ calls = << >>
  /\ uploads = 0

StoreIdle == SchedIdle /\ PostIdle /\ CanvasIdle

LayoutIdle ==
  /\ text = << >>
  /\ fontSize = UndefNum
  /\ maxWidth = UndefNum
  /\ laid = << >>
  /\ lines = << >>
  /\ relaid = << >>
  /\ stage = "idle"

FontIdle ==
  /\ registeredFonts = {}
  /\ fontFiles = {}
  /\ registrations = << >>
  /\ ensured = << >>
  /\ fetched = {}

TwoIdle ==
  /\ running = 1
  /\ parked = << >>

RenderIdle ==
  /\ config = Config(UndefNum, UndefNum, Undefined)
  /\ elements = << >>
  /\ params = [n \in {NameA, NameB} |-> Undefined]
  /\ pc = "idle"
  /\ idx = 0
  /\ canvas = [created |-> FALSE, width |-> 0, height |-> 0]
  /\ ctx = NewContext
  /\ ops = << >>
  /\ outcomes = << >>

Outcome(what, size) == [what |-> what, size |-> size]

NoCanvas == [created |-> FALSE, width |-> 0, height |-> 0]

\* createCanvas(config.width || 800, config.height || 600)
CanvasWidth(cfg) == OrNum(cfg.width, 800)

CanvasHeight(cfg) == OrNum(cfg.height, 600)

\* the canvas library refuses a surface with a negative side
CreateCanvasThrows(w, h) == w < 0 \/ h < 0

\* for (const element of elements)
FirstIndex == 1

NextIndex(i) == i + 1

\* a loop that walks the array from its end
ElementAtReversed(i) == elements[Len(elements) + 1 - i]

ElementAt(i) == elements[i]

\* const variableValue = params[element.variableName]
VariableValue(element) == params[element.variableName]

PositiveSize(cfg) ==
  /\ cfg.width.defined /\ cfg.width.num > 0
  /\ cfg.height.defined /\ cfg.height.num > 0

Init ==
  /\ config \in Configs
  /\ elements \in Templates
  /\ ~PositiveSize(config) => Len(elements) <= MaxElementsBadSize
  /\ params \in ParamMaps
  /\ pc = "start"
  /\ idx = 0
  /\ canvas = NoCanvas
  /\ ctx = NewContext
  /\ ops = << >>
  /\ outcomes = << >>
  /\ LayoutIdle
  /\ FontIdle
  /\ TwoIdle
  /\ StoreIdle

CreateCanvas ==
  /\ pc = "start"
  /\ LET w == CanvasWidth(config)
         h == CanvasHeight(config)
         c == [NewContext EXCEPT !.fillStyle = "white"]
     IN  IF CreateCanvasThrows(w, h)
         THEN /\ pc' = "thrown"
              /\ UNCHANGED <<idx, canvas, ctx, ops>>
         ELSE /\ canvas' = [created |-> TRUE, width |-> w, height |-> h]
              /\ ctx' = c
              /\ ops' = <<FillRect(0, c, R(0), R(0), R(w), R(h))>>
              /\ idx' = FirstIndex
              /\ pc' = IF Truthy(config.backgroundImage) THEN "background" ELSE "elements"
  /\ UNCHANGED <<config, elements, params, outcomes>>
  /\ UNCHANGED <<layoutVars, fontVars, twoVars, storeVars>>

\* await loadImage(config.backgroundImage) resolves
BackgroundLoaded ==
  /\ pc = "background"
  /\ \E size \in NaturalSizes :
       ops' = Append(ops, DrawImage(0, ctx, Image(config.backgroundImage.str, size),
                                    R(0), R(0), R(canvas.width), R(canvas.height)))
  /\ pc' = "elements"
  /\ UNCHANGED <<config, elements, params, idx, canvas, ctx, outcomes>>
  /\ UNCHANGED <<layoutVars, fontVars, twoVars, storeVars>>

\* await loadImage(config.backgroundImage) rejects: console.warn only
BackgroundFailed ==
  /\ pc = "background"
  /\ pc' = "elements"
  /\ UNCHANGED <<config, elements, params, idx, canvas, ctx, ops, outcomes>>
  /\ UNCHANGED <<layoutVars, fontVars, twoVars, storeVars>>

\* what the loop does with the outcome r of one element routine
Proceed(r, outcome) ==
  IF r.thrown
  THEN /\ pc' = "thrown"
       /\ UNCHANGED <<idx, ctx, ops, outcomes>>
  ELSE /\ ctx' = r.ctx
       /\ ops' = ops \o r.ops
       /\ outcomes' = Append(outcomes, outcome)
       /\ idx' = NextIndex(idx)
       /\ pc' = "elements"

InLoop == pc = "elements" /\ idx \in 1..Len(elements)

DrawText ==
  /\ InLoop
  /\ ElementAt(idx).data.type = "text"
  /\ LET element == ElementAt(idx)
         value == VariableValue(element)
     IN  \E failAt \in 0..(LineCount(ctx, element, value) + 1) :
           Proceed(DrawTextElement(idx, ctx, element, value, failAt),
                   Outcome(IF failAt > LineCount(ctx, element, value)
                           THEN "text" ELSE "textFailed", <<0, 0>>))
  /\ UNCHANGED <<config, elements, params, canvas>>
  /\ UNCHANGED <<layoutVars, fontVars, twoVars, storeVars>>

DrawImageNoSource ==
  /\ InLoop
  /\ ElementAt(idx).data.type = "image"
  /\ ~Truthy(ResolveSrc(ElementAt(idx), VariableValue(ElementAt(idx))))
  /\ Proceed(ImagePlaceholder(idx, ctx, ElementAt(idx)), Outcome("noSource", <<0, 0>>))
  /\ UNCHANGED <<config, elements, params, canvas>>
  /\ UNCHANGED <<layoutVars, fontVars, twoVars, storeVars>>

\* drawImageElement reaches `await loadImage(imageSrc)`
StartLoadImage ==
  /\ InLoop
  /\ ElementAt(idx).data.type = "image"
  /\ Truthy(ResolveSrc(ElementAt(idx), VariableValue(ElementAt(idx))))
  /\ pc' = "loading"
  /\ UNCHANGED <<config, elements, params, idx, canvas, ctx, ops, outcomes>>
  /\ UNCHANGED <<layoutVars, fontVars, twoVars, storeVars>>

ImageLoaded ==
  /\ pc = "loading"
  /\ LET element == ElementAt(idx)
         src == ResolveSrc(element, VariableValue(element)).str
     IN  \E size \in NaturalSizes :
           Proceed(DrawLoadedImage(idx, ctx, element, Image(src, size)), Outcome("loaded", size))
  /\ UNCHANGED <<config, elements, params, canvas>>
  /\ UNCHANGED <<layoutVars, fontVars, twoVars, storeVars>>

ImageLoadFailed ==
  /\ pc = "loading"
  /\ Proceed(ImageFallback(idx, ctx, ElementAt(idx)), Outcome("loadFailed", <<0, 0>>))
  /\ UNCHANGED <<config, elements, params, canvas>>
  /\ UNCHANGED <<layoutVars, fontVars, twoVars, storeVars>>

\* an element that is neither text nor image: no branch of the if / else if
SkipElement ==
  /\ InLoop
  /\ ElementAt(idx).data.type \notin {"text", "image"}
  /\ idx' = NextIndex(idx)
  /\ outcomes' = Append(outcomes, Outcome("skipped", <<0, 0>>))
  /\ UNCHANGED <<config, elements, params, pc, canvas, ctx, ops>>
  /\ UNCHANGED <<layoutVars, fontVars, twoVars, storeVars>>

\* return canvas.toBuffer('image/png')
ReturnBuffer ==
  /\ pc = "elements"
  /\ idx > Len(elements)
  /\ pc' = "returned"
  /\ UNCHANGED <<config, elements, params, idx, canvas, ctx, ops, outcomes>>
  /\ UNCHANGED <<layoutVars, fontVars, twoVars, storeVars>>

Next ==
  \/ CreateCanvas
  \/ BackgroundLoaded
  \/ BackgroundFailed
  \/ DrawText
  \/ DrawImageNoSource
  \/ StartLoadImage
  \/ ImageLoaded
  \/ ImageLoadFailed
  \/ SkipElement
  \/ ReturnBuffer

Spec == Init /\ [][Next]_vars

----------------------------------------------------------------------------
(* Two generateCanvasImage calls in one process *)

\* the longest template of the first call
MaxElementsTwo == 2

\* a text, an image without a source and a cover image
TwoPool ==
  { TextElement(NameA, 1, 2, Str(<<"H", "i">>), UndefNum, UndefNum, "undefined"),
    ImageElement(NameA, 1, 1, Undefined, Num(4), UndefNum, "undefined"),
    ImageElement(NameB, 0, 1, Str(UrlOne), Num(4), Num(2), "cover") }

TwoTemplates == UNION { [1..n -> TwoPool] : n \in 0..MaxElementsTwo }

\* the template of the second call: a centred text and a cover image
OtherTemplate ==
  << TextElement(NameA, 3, 1, Undefined, Num(20), Num(100), "center"),
     ImageElement(NameB, 0, 1, Str(UrlOne), Num(4), Num(2), "cover") >>

TwoConfig == Config(Num(6), Num(4), Str(UrlTwo))

TwoParams == [n \in {NameA, NameB} |-> Undefined]

\* the arguments and the locals of the call that is running
Locals ==
  [config |-> config, elements |-> elements, params |-> params, pc |-> pc, idx |-> idx,
   canvas |-> canvas, ctx |-> ctx, ops |-> ops, outcomes |-> outcomes]

\* a call that has not run yet
NewCall(cfg, els, prm) ==
  [config |-> cfg, elements |-> els, params |-> prm, pc |-> "start", idx |-> 0,
   canvas |-> NoCanvas, ctx |-> NewContext, ops |-> << >>, outcomes |-> << >>]

InitTwo ==
  /\ config = TwoConfig
  /\ elements \in TwoTemplates
  /\ params = TwoParams
  /\ pc = "start"
  /\ idx = 0
  /\ canvas = NoCanvas
  /\ ctx = NewContext
  /\ ops = << >>
  /\ outcomes = << >>
  /\ running = 1
  /\ parked = NewCall(TwoConfig, OtherTemplate, TwoParams)
  /\ LayoutIdle
  /\ FontIdle
  /\ StoreIdle

\* the two calls drawing on one context kept at module level
ResumedOnSharedContext(saved, current) == [saved EXCEPT !.ctx = current.ctx]

\* what a call finds when it goes on after an await during which the other
\* call ran: its own arguments and locals (canvas and ctx are consts of the
\* function body, lines 14-15), as it left them
Resumed(saved, current) == saved

\* the running call waits at an await and the other call goes on
Switch ==
  /\ parked.pc \notin {"returned", "thrown"}
  /\ LET r == Resumed(parked, Locals)
     IN  /\ config' = r.config
         /\ elements' = r.elements
         /\ params' = r.params
         /\ pc' = r.pc
         /\ idx' = r.idx
         /\ canvas' = r.canvas
         /\ ctx' = r.ctx
         /\ ops' = r.ops
         /\ outcomes' = r.outcomes
  /\ parked' = Locals
  /\ running' = 3 - running
  /\ UNCHANGED <<layoutVars, fontVars, storeVars>>

NextTwo ==
  \/ CreateCanvas
  \/ BackgroundLoaded
  \/ BackgroundFailed
  \/ DrawText
  \/ DrawImageNoSource
  \/ StartLoadImage
  \/ ImageLoaded
  \/ ImageLoadFailed
  \/ ReturnBuffer
  \/ Switch

SpecTwo == InitTwo /\ [][NextTwo]_vars

----------------------------------------------------------------------------
(* The text layout of drawTextElement on its own *)

\* the longest text laid out
MaxTextLen == 5

Alphabet == {"a", " ", "\t", "\n"}

Texts == UNION { [1..n -> Alphabet] : n \in 0..MaxTextLen }

FontSizes == {Num(1), Num(2)}

MaxWidths == {Num(3), Num(4), Num(-1), UndefNum}

\* the text element whose layout is computed
LayoutElement == TextElement(NameA, 0, 0, Str(text), fontSize, maxWidth, "undefined")

\* the context and the maxWidth drawTextElement lays this element out with
LayoutContext == TextContext(NewContext, LayoutElement)

LayoutMaxWidth == OrNum(LayoutElement.data.maxWidth, 400)

InitLayout ==
  /\ text \in Texts
  /\ fontSize \in FontSizes
  /\ maxWidth \in MaxWidths
  /\ laid = << >>
  /\ lines = << >>
  /\ relaid = << >>
  /\ stage = "input"
  /\ RenderIdle
  /\ FontIdle
  /\ TwoIdle
  /\ StoreIdle

\* lines 86-96 on the text
LayoutText ==
  /\ stage = "input"
  /\ laid' = LaidSegments(LayoutContext, text, LayoutMaxWidth)
  /\ lines' = LayoutLines(LayoutContext, text, LayoutMaxWidth)
  /\ stage' = "laid"
  /\ UNCHANGED <<text, fontSize, maxWidth, relaid>>
  /\ UNCHANGED <<renderVars, fontVars, twoVars, storeVars>>

\* Array.prototype.join with a separator
RECURSIVE Join(_, _)
Join(l, sep) ==
  IF Len(l) = 0 THEN << >>
  ELSE IF Len(l) = 1 THEN l[1]
  ELSE l[1] \o <<sep>> \o Join(Tail(l), sep)

\* lines 86-96 on the lines of the first layout joined by newlines
LayoutAgain ==
  /\ stage = "laid"
  /\ relaid' = LayoutLines(LayoutContext, Join(lines, "\n"), LayoutMaxWidth)
  /\ stage' = "relaid"
  /\ UNCHANGED <<text, fontSize, maxWidth, laid, lines>>
  /\ UNCHANGED <<renderVars, fontVars, twoVars, storeVars>>

NextLayout ==
  \/ LayoutText
  \/ LayoutAgain

SpecLayout == InitLayout /\ [][NextLayout]_vars

----------------------------------------------------------------------------
(* FontManager *)

\* a family name the code writes as a literal, and one it computes
Literal(name) == [lit |-> name, chars |-> << >>]

Computed(chars) == [lit |-> "", chars |-> chars]

NoFont == Literal("")

\* initializeFontMap
FontMap ==
  <<
     [family |-> <<"M", "o", "n", "t", "s", "e", "r", "r", "a", "t", ",", " ", "s", "a", "n", "s", "-", "s", "e", "r", "i", "f">>,
      google |-> <<"M", "o", "n", "t", "s", "e", "r", "r", "a", "t">>],
     [family |-> <<"P", "l", "a", "y", "f", "a", "i", "r", " ", "D", "i", "s", "p", "l", "a", "y", ",", " ", "s", "e", "r", "i", "f">>,
      google |-> <<"P", "l", "a", "y", "f", "a", "i", "r", " ", "D", "i", "s", "p", "l", "a", "y">>],
     [family |-> <<"M", "e", "r", "r", "i", "w", "e", "a", "t", "h", "e", "r", ",", " ", "s", "e", "r", "i", "f">>,
      google |-> <<"M", "e", "r", "r", "i", "w", "e", "a", "t", "h", "e", "r">>],
     [family |-> <<"L", "o", "r", "a", ",", " ", "s", "e", "r", "i", "f">>,
      google |-> <<"L", "o", "r", "a">>],
     [family |-> <<"R", "a", "l", "e", "w", "a", "y", ",", " ", "s", "a", "n", "s", "-", "s", "e", "r", "i", "f">>,
      google |-> <<"R", "a", "l", "e", "w", "a", "y">>],
     [family |-> <<"O", "p", "e", "n", " ", "S", "a", "n", "s", ",", " ", "s", "a", "n", "s", "-", "s", "e", "r", "i", "f">>,
      google |-> <<"O", "p", "e", "n", " ", "S", "a", "n", "s">>],
     [family |-> <<"R", "o", "b", "o", "t", "o", ",", " ", "s", "a", "n", "s", "-", "s", "e", "r", "i", "f">>,
      google |-> <<"R", "o", "b", "o", "t", "o">>],
     [family |-> <<"L", "a", "t", "o", ",", " ", "s", "a", "n", "s", "-", "s", "e", "r", "i", "f">>,
      google |-> <<"L", "a", "t", "o">>],
     [family |-> <<"P", "o", "p", "p", "i", "n", "s", ",", " ", "s", "a", "n", "s", "-", "s", "e", "r", "i", "f">>,
      google |-> <<"P", "o", "p", "p", "i", "n", "s">>],
     [family |-> <<"N", "u", "n", "i", "t", "o", ",", " ", "s", "a", "n", "s", "-", "s", "e", "r", "i", "f">>,
      google |-> <<"N", "u", "n", "i", "t", "o">>],
     [family |-> <<"S", "o", "u", "r", "c", "e", " ", "S", "a", "n", "s", " ", "P", "r", "o", ",", " ", "s", "a", "n", "s", "-", "s", "e", "r", "i", "f">>,
      google |-> <<"S", "o", "u", "r", "c", "e", " ", "S", "a", "n", "s", " ", "P", "r", "o">>],
     [family |-> <<"B", "e", "b", "a", "s", " ", "N", "e", "u", "e", ",", " ", "s", "a", "n", "s", "-", "s", "e", "r", "i", "f">>,
      google |-> <<"B", "e", "b", "a", "s", " ", "N", "e", "u", "e">>],
     [family |-> <<"O", "s", "w", "a", "l", "d", ",", " ", "s", "a", "n", "s", "-", "s", "e", "r", "i", "f">>,
      google |-> <<"O", "s", "w", "a", "l", "d">>],
     [family |-> <<"D", "a", "n", "c", "i", "n", "g", " ", "S", "c", "r", "i", "p", "t", ",", " ", "c", "u", "r", "s", "i", "v", "e">>,
      google |-> <<"D", "a", "n", "c", "i", "n", "g", " ", "S", "c", "r", "i", "p", "t">>],
     [family |-> <<"P", "a", "c", "i", "f", "i", "c", "o", ",", " ", "c", "u", "r", "s", "i", "v", "e">>,
      google |-> <<"P", "a", "c", "i", "f", "i", "c", "o">>],
     [family |-> <<"G", "r", "e", "a", "t", " ", "V", "i", "b", "e", "s", ",", " ", "c", "u", "r", "s", "i", "v", "e">>,
      google |-> <<"G", "r", "e", "a", "t", " ", "V", "i", "b", "e", "s">>],
     [family |-> <<"S", "a", "t", "i", "s", "f", "y", ",", " ", "c", "u", "r", "s", "i", "v", "e">>,
      google |-> <<"S", "a", "t", "i", "s", "f", "y">>],
     [family |-> <<"K", "a", "u", "s", "h", "a", "n", " ", "S", "c", "r", "i", "p", "t", ",", " ", "c", "u", "r", "s", "i", "v", "e">>,
      google |-> <<"K", "a", "u", "s", "h", "a", "n", " ", "S", "c", "r", "i", "p", "t">>],
     [family |-> <<"A", "m", "a", "t", "i", "c", " ", "S", "C", ",", " ", "c", "u", "r", "s", "i", "v", "e">>,
      google |-> <<"A", "m", "a", "t", "i", "c", " ", "S", "C">>],
     [family |-> <<"C", "a", "v", "e", "a", "t", ",", " ", "c", "u", "r", "s", "i", "v", "e">>,
      google |-> <<"C", "a", "v", "e", "a", "t">>],
     [family |-> <<"S", "o", "u", "r", "c", "e", " ", "C", "o", "d", "e", " ", "P", "r", "o", ",", " ", "m", "o", "n", "o", "s", "p", "a", "c", "e">>,
      google |-> <<"S", "o", "u", "r", "c", "e", " ", "C", "o", "d", "e", " ", "P", "r", "o">>],
     [family |-> <<"F", "i", "r", "a", " ", "C", "o", "d", "e", ",", " ", "m", "o", "n", "o", "s", "p", "a", "c", "e">>,
      google |-> <<"F", "i", "r", "a", " ", "C", "o", "d", "e">>],
     [family |-> <<"J", "e", "t", "B", "r", "a", "i", "n", "s", " ", "M", "o", "n", "o", ",", " ", "m", "o", "n", "o", "s", "p", "a", "c", "e">>,
      google |-> <<"J", "e", "t", "B", "r", "a", "i", "n", "s", " ", "M", "o", "n", "o">>],
     [family |-> <<"R", "o", "b", "o", "t", "o", " ", "M", "o", "n", "o", ",", " ", "m", "o", "n", "o", "s", "p", "a", "c", "e">>,
      google |-> <<"R", "o", "b", "o", "t", "o", " ", "M", "o", "n", "o">>]
  >>

\* this.fontMap.get(fontFamily)
FontMapGet(fontFamily) ==
  IF \E k \in 1..Len(FontMap) : FontMap[k].family = fontFamily
  THEN Str(FontMap[CHOOSE k \in 1..Len(FontMap) : FontMap[k].family = fontFamily].google)
  ELSE Undefined

GetFallbackFont(fontFamily) ==
  IF IncludesString(fontFamily, <<"s", "e", "r", "i", "f">>)
  THEN Literal("Times New Roman, serif")
  ELSE IF IncludesString(fontFamily, <<"m", "o", "n", "o", "s", "p", "a", "c", "e">>)
  THEN Literal("Courier New, monospace")
  ELSE IF IncludesString(fontFamily, <<"c", "u", "r", "s", "i", "v", "e">>)
  THEN Literal("Comic Sans MS, cursive")
  ELSE Literal("Arial, sans-serif")

\* the if chain of getSystemFont, in its order
SystemFonts ==
  <<
     [key |-> <<"o", "s", "w", "a", "l", "d">>, font |-> "Impact"],
     [key |-> <<"m", "o", "n", "t", "s", "e", "r", "r", "a", "t">>, font |-> "Arial"],
     [key |-> <<"r", "o", "b", "o", "t", "o">>, font |-> "Arial"],
     [key |-> <<"o", "p", "e", "n", " ", "s", "a", "n", "s">>, font |-> "Arial"],
     [key |-> <<"l", "a", "t", "o">>, font |-> "Arial"],
     [key |-> <<"p", "o", "p", "p", "i", "n", "s">>, font |-> "Arial"],
     [key |-> <<"p", "l", "a", "y", "f", "a", "i", "r">>, font |-> "Times New Roman"],
     [key |-> <<"m", "e", "r", "r", "i", "w", "e", "a", "t", "h", "e", "r">>, font |-> "Times New Roman"],
     [key |-> <<"l", "o", "r", "a">>, font |-> "Times New Roman"],
     [key |-> <<"d", "a", "n", "c", "i", "n", "g", " ", "s", "c", "r", "i", "p", "t">>, font |-> "Comic Sans MS"],
     [key |-> <<"p", "a", "c", "i", "f", "i", "c", "o">>, font |-> "Comic Sans MS"],
     [key |-> <<"s", "o", "u", "r", "c", "e", " ", "c", "o", "d", "e">>, font |-> "Courier New"],
     [key |-> <<"f", "i", "r", "a", " ", "c", "o", "d", "e">>, font |-> "Courier New"],
     [key |-> <<"m", "o", "n", "o">>, font |-> "Courier New"]
  >>

GetSystemFont(fontFamily) ==
  LET lowerFamily == ToLowerCase(fontFamily)
      hits == { k \in 1..Len(SystemFonts) : IncludesString(lowerFamily, SystemFonts[k].key) }
  IN  IF hits # {}
      THEN Literal(SystemFonts[CHOOSE k \in hits : \A j \in hits : k <= j].font)
      ELSE GetFallbackFont(fontFamily)

\* weights = ['400', '700']
Weights == <<"400", "700">>

\* the file of one weight: fontsDir/<name with _>/<name with _>-<weight>.ttf
FontFile(googleFontName, weight) ==
  [dir |-> ReplaceWhitespace(googleFontName, <<"_">>), weight |-> weight]

\* the for loop of downloadFont from weight number w on, up to its next await:
\* the fetch of the CSS of the first weight whose file does not exist, or the
\* return when there is none
ResumeDownload(task, w, files) ==
  LET missing == { k \in w..Len(Weights) : FontFile(task.google, Weights[k]) \notin files }
  IN  IF missing = {}
      THEN [task EXCEPT !.pc = "register", !.w = Len(Weights) + 1]
      ELSE [task EXCEPT !.pc = "css", !.w = CHOOSE k \in missing : \A j \in missing : k <= j]

\* registerFont(fontFamily) up to its first await
StartRegisterFont(fontFamily, registered, files) ==
  LET googleFontName == FontMapGet(fontFamily)
      task == [family |-> fontFamily, google |-> googleFontName.str, pc |-> "done",
               w |-> 0, result |-> NoFont]
  IN  IF ~Truthy(googleFontName)
      THEN [task EXCEPT !.result = GetFallbackFont(fontFamily)]
      ELSE IF googleFontName.str \in registered
      THEN [task EXCEPT !.result = Computed(googleFontName.str)]
      ELSE ResumeDownload(task, 1, files)

\* ensureFontAvailable awaiting the registration before it returns
EnsureReturnAfterRegistration(fontFamily) == [returned |-> FALSE, value |-> NoFont]

\* what ensureFontAvailable gives its caller in the run of the call: the
\* promise of registerFont is given a catch handler and is not awaited
EnsureReturn(fontFamily) == [returned |-> TRUE, value |-> GetSystemFont(fontFamily)]

\* the ensureFontAvailable calls made, each with its registerFont invocation
MaxRegistrations == 2

FontFamilies ==
  { PlayfairDisplay,
    Helvetica,
    <<"G", "e", "o", "r", "g", "i", "a", ",", " ", "s", "e", "r", "i", "f">>,
    <<"C", "o", "u", "r", "i", "e", "r", ",", " ", "m", "o", "n", "o", "s", "p", "a", "c", "e">>,
    <<"B", "r", "u", "s", "h", " ", "S", "c", "r", "i", "p", "t", " ", "M", "T", ",", " ", "c", "u", "r", "s", "i", "v", "e">>,
    <<"V", "e", "r", "d", "a", "n", "a">> }

InitFont ==
  /\ FontIdle
  /\ RenderIdle
  /\ LayoutIdle
  /\ TwoIdle
  /\ StoreIdle

\* a caller calls ensureFontAvailable(fontFamily)
EnsureFontAvailable ==
  /\ Len(registrations) < MaxRegistrations
  /\ \E fontFamily \in FontFamilies :
       LET r == EnsureReturn(fontFamily)
       IN  /\ ensured' = Append(ensured, [family |-> fontFamily, reg |-> Len(registrations) + 1,
                                          returned |-> r.returned, value |-> r.value])
           /\ registrations' = Append(registrations,
                                      StartRegisterFont(fontFamily, registeredFonts, fontFiles))
  /\ UNCHANGED <<registeredFonts, fontFiles, fetched>>
  /\ UNCHANGED <<renderVars, layoutVars, twoVars, storeVars>>

\* await fetch(apiUrl) settles: a response that is ok, one that is not
\* (continue with the next weight), or a rejection (catch: return false)
CssResponse ==
  /\ \E i \in 1..Len(registrations) :
       /\ registrations[i].pc = "css"
       /\ \E outcome \in {"ok", "notOk", "throws"} :
            registrations' =
              [registrations EXCEPT ![i] =
                 IF outcome = "ok" THEN [@ EXCEPT !.pc = "cssText"]
                 ELSE IF outcome = "notOk" THEN ResumeDownload(@, @.w + 1, fontFiles)
                 ELSE [@ EXCEPT !.pc = "register"]]
  /\ UNCHANGED <<registeredFonts, fontFiles, ensured, fetched>>
  /\ UNCHANGED <<renderVars, layoutVars, twoVars, storeVars>>

\* await cssResponse.text() settles: with a url(...) in it (fetch(fontUrl) is
\* issued) or without one (continue)
CssText ==
  /\ \E i \in 1..Len(registrations) :
       /\ registrations[i].pc = "cssText"
       /\ \E outcome \in {"url", "noUrl"} :
            IF outcome = "url"
            THEN /\ registrations' = [registrations EXCEPT ![i].pc = "font"]
                 /\ fetched' = fetched \cup
                      {[file |-> FontFile(registrations[i].google, Weights[registrations[i].w]),
                        by |-> i]}
            ELSE /\ registrations' =
                      [registrations EXCEPT ![i] = ResumeDownload(@, @.w + 1, fontFiles)]
                 /\ UNCHANGED fetched
  /\ UNCHANGED <<registeredFonts, fontFiles, ensured>>
  /\ UNCHANGED <<renderVars, layoutVars, twoVars, storeVars>>

\* await fetch(fontUrl) settles
FontResponse ==
  /\ \E i \in 1..Len(registrations) :
       /\ registrations[i].pc = "font"
       /\ \E outcome \in {"ok", "notOk", "throws"} :
            registrations' =
              [registrations EXCEPT ![i] =
                 IF outcome = "ok" THEN [@ EXCEPT !.pc = "buffer"]
                 ELSE IF outcome = "notOk" THEN ResumeDownload(@, @.w + 1, fontFiles)
                 ELSE [@ EXCEPT !.pc = "register"]]
  /\ UNCHANGED <<registeredFonts, fontFiles, ensured, fetched>>
  /\ UNCHANGED <<renderVars, layoutVars, twoVars, storeVars>>

\* await fontResponse.buffer() resolves: fs.writeFileSync(fontPath, fontBuffer)
FontBuffer ==
  /\ \E i \in 1..Len(registrations) :
       /\ registrations[i].pc = "buffer"
       /\ LET files == fontFiles \cup {FontFile(registrations[i].google,
                                                 Weights[registrations[i].w])}
          IN  /\ fontFiles' = files
              /\ registrations' =
                   [registrations EXCEPT ![i] = ResumeDownload(@, @.w + 1, files)]
  /\ UNCHANGED <<registeredFonts, ensured, fetched>>
  /\ UNCHANGED <<renderVars, layoutVars, twoVars, storeVars>>

\* await this.downloadFont(fontFamily) resolves: the files that exist are
\* registered with the canvas library, which may throw on a file (catch:
\* the fallback family is returned)
RegisterDownloaded ==
  /\ \E i \in 1..Len(registrations) :
       /\ registrations[i].pc = "register"
       /\ LET t == registrations[i]
              present == \E k \in 1..Len(Weights) : FontFile(t.google, Weights[k]) \in fontFiles
          IN  \E outcome \in {"ok"} \cup (IF present THEN {"throws"} ELSE {}) :
                IF outcome = "ok"
                THEN /\ registeredFonts' = registeredFonts \cup {t.google}
                     /\ registrations' =
                          [registrations EXCEPT ![i].pc = "done",
                             ![i].result = Computed(ReplaceWhitespace(t.google, << >>))]
                ELSE /\ UNCHANGED registeredFonts
                     /\ registrations' =
                          [registrations EXCEPT ![i].pc = "done",
                             ![i].result = GetFallbackFont(t.family)]
  /\ UNCHANGED <<fontFiles, ensured, fetched>>
  /\ UNCHANGED <<renderVars, layoutVars, twoVars, storeVars>>

NextFont ==
  \/ EnsureFontAvailable
  \/ CssResponse
  \/ CssText
  \/ FontResponse
  \/ FontBuffer
  \/ RegisterDownloaded

SpecFont == InitFont /\ [][NextFont]_vars

----------------------------------------------------------------------------
(* SchedulerService: the cron job, executeSchedule, activateTemplateGroup *)

\* a wall-clock minute, as the getters of Date give it (month 1..12)
Minute(year, month, day, hour, minute) ==
  [year |-> year, month |-> month, day |-> day, hour |-> hour, minute |-> minute]

IsLeapYear(year) == (year % 4 = 0 /\ year % 100 # 0) \/ year % 400 = 0

DaysInMonth(year, month) ==
  IF month = 2 THEN (IF IsLeapYear(year) THEN 29 ELSE 28)
  ELSE IF month \in {4, 6, 9, 11} THEN 30
  ELSE 31

\* the minute that follows t on the clock of the server
NextMinute(t) ==
  IF t.minute < 59 THEN [t EXCEPT !.minute = @ + 1]
  ELSE IF t.hour < 23 THEN [t EXCEPT !.minute = 0, !.hour = @ + 1]
  ELSE IF t.day < DaysInMonth(t.year, t.month)
  THEN [t EXCEPT !.minute = 0, !.hour = 0, !.day = @ + 1]
  ELSE IF t.month < 12
  THEN [t EXCEPT !.minute = 0, !.hour = 0, !.day = 1, !.month = @ + 1]
  ELSE Minute(t.year + 1, 1, 1, 0, 0)

\* the minute before the first one the cron job fires in
StartMinute == Minute(2024, 12, 31, 23, 58)

\* new Date() in the n-th firing of the cron job: one firing a minute
RECURSIVE ClockAt(_)
ClockAt(n) == IF n = 0 THEN StartMinute ELSE NextMinute(ClockAt(n - 1))

GroupIds == {"g1", "g2"}

Schedule(id, group_id, t) ==
  [id |-> id, group_id |-> group_id, year |-> t.year, month |-> t.month, day |-> t.day,
   hour |-> t.hour, minute |-> t.minute, is_executed |-> FALSE]

\* the rows of template_schedules the service starts with
ScheduleTables ==
  { <<Schedule(1, "g1", ClockAt(1)), Schedule(2, "g2", ClockAt(2))>>,
    <<Schedule(1, "g2", ClockAt(2)), Schedule(2, "g1", Minute(2024, 12, 31, 23, 0))>>,
    <<Schedule(1, "g1", ClockAt(1)), Schedule(2, "g2", ClockAt(1))>>,
    <<Schedule(1, "g1", Minute(2025, 1, 1, 0, 30))>> }

\* the WHERE clause of the query with the minute compared by < and not by <=
DueBeforeMinute(ts, now) ==
  \/ ts.year < now.year
  \/ ts.year = now.year /\ ts.month < now.month
  \/ ts.year = now.year /\ ts.month = now.month /\ ts.day < now.day
  \/ ts.year = now.year /\ ts.month = now.month /\ ts.day = now.day /\ ts.hour < now.hour
  \/ /\ ts.year = now.year /\ ts.month = now.month /\ ts.day = now.day
     /\ ts.hour = now.hour /\ ts.minute < now.minute

\* the five alternatives of the WHERE clause of checkScheduledActivations
Due(ts, now) ==
  \/ ts.year < now.year
  \/ ts.year = now.year /\ ts.month < now.month
  \/ ts.year = now.year /\ ts.month = now.month /\ ts.day < now.day
  \/ ts.year = now.year /\ ts.month = now.month /\ ts.day = now.day /\ ts.hour < now.hour
  \/ /\ ts.year = now.year /\ ts.month = now.month /\ ts.day = now.day
     /\ ts.hour = now.hour /\ ts.minute <= now.minute

\* ORDER BY ts.year, ts.month, ts.day, ts.hour, ts.minute: a comes before b
OrderedBefore(a, b) ==
  \/ a.year < b.year
  \/ a.year = b.year /\ a.month < b.month
  \/ a.year = b.year /\ a.month = b.month /\ a.day < b.day
  \/ a.year = b.year /\ a.month = b.month /\ a.day = b.day /\ a.hour < b.hour
  \/ /\ a.year = b.year /\ a.month = b.month /\ a.day = b.day
     /\ a.hour = b.hour /\ a.minute < b.minute

\* the rows the query selects: not executed, joined to a group that exists, due
SelectedRows(schedules, groups, now) ==
  { schedules[id] : id \in { i \in DOMAIN schedules :
                               /\ ~schedules[i].is_executed
                               /\ schedules[i].group_id \in DOMAIN groups
                               /\ Due(schedules[i], now) } }

\* the results the query can give: the selected rows in the order of the
\* ORDER BY, rows of one and the same minute in any order
SchedulesToExecute(schedules, groups, now) ==
  LET rows == SelectedRows(schedules, groups, now)
      n == Cardinality(rows)
  IN  { q \in [1..n -> rows] :
          /\ \A i, j \in 1..n : i # j => q[i] # q[j]
          /\ \A i, j \in 1..n : i < j => ~OrderedBefore(q[j], q[i]) }

\* a checkScheduledActivations invocation: now, the position in the method,
\* whether its query has returned, the result of the query and the position k
\* of the for loop in it
NewTick(now) == [now |-> now, pc |-> "select", queried |-> FALSE, due |-> << >>, k |-> 0]

\* the invocation has ended: its locals are gone
EndTick(t) == [t EXCEPT !.pc = "done", !.due = << >>, !.k = 0]

\* executeSchedule has returned (its catch block swallows what it caught):
\* the for loop goes on with the next schedule, or the invocation ends
NextSchedule(t) ==
  IF t.k < Len(t.due)
  THEN [t EXCEPT !.k = @ + 1, !.pc = "deactivate"]
  ELSE EndTick(t)

\* UPDATE template_groups SET is_active = FALSE WHERE is_active = TRUE
DeactivateAll(groups) == [g \in DOMAIN groups |-> [groups[g] EXCEPT !.is_active = FALSE]]

\* UPDATE template_groups SET is_active = TRUE WHERE id = $1
ActivateGroup(groups, id) ==
  [g \in DOMAIN groups |-> IF g = id THEN [groups[g] EXCEPT !.is_active = TRUE] ELSE groups[g]]

\* UPDATE template_schedules SET is_executed = TRUE ... WHERE id = $1
MarkExecuted(schedules, id) ==
  [i \in DOMAIN schedules |->
     IF schedules[i].id = id THEN [schedules[i] EXCEPT !.is_executed = TRUE] ELSE schedules[i]]

\* the firings of the cron job
MaxTicks == 2

\* the POST /groups/:id/activate requests
MaxActivations == 1

InitSched ==
  /\ template_groups = [g \in GroupIds |-> [is_active |-> FALSE]]
  /\ template_schedules \in ScheduleTables
  /\ clock = 0
  /\ ticks = << >>
  /\ activations = << >>
  /\ executions = {}
  /\ PostIdle
  /\ CanvasIdle
  /\ RenderIdle
  /\ LayoutIdle
  /\ FontIdle
  /\ TwoIdle

\* the cron job fires ('* * * * *'): checkScheduledActivations reads the
\* clock and issues its query, whether or not an earlier firing has ended
CronFires ==
  /\ clock < MaxTicks
  /\ clock' = clock + 1
  /\ ticks' = Append(ticks, NewTick(ClockAt(clock + 1)))
  /\ UNCHANGED <<template_groups, template_schedules, activations, executions>>
  /\ UNCHANGED <<renderVars, layoutVars, fontVars, twoVars, postVars, canvasVars>>

\* await getAllQuery(...) of checkScheduledActivations resolves
QueryDue ==
  /\ \E i \in 1..Len(ticks) :
       /\ ticks[i].pc = "select"
       /\ \E q \in SchedulesToExecute(template_schedules, template_groups, ticks[i].now) :
            ticks' = [ticks EXCEPT ![i] = NextSchedule([@ EXCEPT !.due = q, !.queried = TRUE])]
  /\ UNCHANGED <<template_groups, template_schedules, clock, activations, executions>>
  /\ UNCHANGED <<renderVars, layoutVars, fontVars, twoVars, postVars, canvasVars>>

\* the query of checkScheduledActivations rejects: the catch block logs
QueryDueFails ==
  /\ \E i \in 1..Len(ticks) :
       /\ ticks[i].pc = "select"
       /\ ticks' = [ticks EXCEPT ![i] = EndTick(@)]
  /\ UNCHANGED <<template_groups, template_schedules, clock, activations, executions>>
  /\ UNCHANGED <<renderVars, layoutVars, fontVars, twoVars, postVars, canvasVars>>

\* executeSchedule: the first update is done
ScheduleDeactivates ==
  /\ \E i \in 1..Len(ticks) :
       /\ ticks[i].pc = "deactivate"
       /\ ticks' = [ticks EXCEPT ![i].pc = "activate"]
  /\ template_groups' = DeactivateAll(template_groups)
  /\ UNCHANGED <<template_schedules, clock, activations, executions>>
  /\ UNCHANGED <<renderVars, layoutVars, fontVars, twoVars, postVars, canvasVars>>

\* executeSchedule: the second update is done; it activates a group when the
\* group of the schedule is still there
ScheduleActivates ==
  /\ \E i \in 1..Len(ticks) :
       LET schedule == ticks[i].due[ticks[i].k]
       IN  /\ ticks[i].pc = "activate"
           /\ ticks' = [ticks EXCEPT ![i].pc = "mark"]
           /\ template_groups' = ActivateGroup(template_groups, schedule.group_id)
           /\ executions' =
                IF schedule.group_id \in DOMAIN template_groups
                THEN executions \cup {schedule.id}
                ELSE executions
  /\ UNCHANGED <<template_schedules, clock, activations>>
  /\ UNCHANGED <<renderVars, layoutVars, fontVars, twoVars, postVars, canvasVars>>

\* executeSchedule: the third update is done, and the method returns
ScheduleMarked ==
  /\ \E i \in 1..Len(ticks) :
       /\ ticks[i].pc = "mark"
       /\ template_schedules' = MarkExecuted(template_schedules, ticks[i].due[ticks[i].k].id)
       /\ ticks' = [ticks EXCEPT ![i] = NextSchedule(@)]
  /\ UNCHANGED <<template_groups, clock, activations, executions>>
  /\ UNCHANGED <<renderVars, layoutVars, fontVars, twoVars, postVars, canvasVars>>

\* one of the three updates of executeSchedule rejects: the catch block logs
\* and the method returns
ScheduleUpdateFails ==
  /\ \E i \in 1..Len(ticks) :
       /\ ticks[i].pc \in {"deactivate", "activate", "mark"}
       /\ ticks' = [ticks EXCEPT ![i] = NextSchedule(@)]
  /\ UNCHANGED <<template_groups, template_schedules, clock, activations, executions>>
  /\ UNCHANGED <<renderVars, layoutVars, fontVars, twoVars, postVars, canvasVars>>

\* POST /groups/:id/activate: activateTemplateGroup issues its first update
ActivateRequested ==
  /\ Len(activations) < MaxActivations
  /\ \E id \in GroupIds :
       activations' = Append(activations, [group_id |-> id, pc |-> "deactivate", status |-> 0])
  /\ UNCHANGED <<template_groups, template_schedules, clock, ticks, executions>>
  /\ UNCHANGED <<renderVars, layoutVars, fontVars, twoVars, postVars, canvasVars>>

\* activateTemplateGroup: the first update is done
ManualDeactivates ==
  /\ \E j \in 1..Len(activations) :
       /\ activations[j].pc = "deactivate"
       /\ activations' = [activations EXCEPT ![j].pc = "activate"]
  /\ template_groups' = DeactivateAll(template_groups)
  /\ UNCHANGED <<template_schedules, clock, ticks, executions>>
  /\ UNCHANGED <<renderVars, layoutVars, fontVars, twoVars, postVars, canvasVars>>

\* activateTemplateGroup: the second update is done; the route answers 200
ManualActivates ==
  /\ \E j \in 1..Len(activations) :
       /\ activations[j].pc = "activate"
       /\ activations' = [activations EXCEPT ![j].pc = "done", ![j].status = 200]
       /\ template_groups' = ActivateGroup(template_groups, activations[j].group_id)
  /\ UNCHANGED <<template_schedules, clock, ticks, executions>>
  /\ UNCHANGED <<renderVars, layoutVars, fontVars, twoVars, postVars, canvasVars>>

\* an update of activateTemplateGroup rejects: it rethrows, the route answers 500
ManualUpdateFails ==
  /\ \E j \in 1..Len(activations) :
       /\ activations[j].pc \in {"deactivate", "activate"}
       /\ activations' = [activations EXCEPT ![j].pc = "done", ![j].status = 500]
  /\ UNCHANGED <<template_groups, template_schedules, clock, ticks, executions>>
  /\ UNCHANGED <<renderVars, layoutVars, fontVars, twoVars, postVars, canvasVars>>

\* DELETE /groups/:id: deleteTemplateGroup deletes the row of the group
DeleteTemplateGroup ==
  /\ \E id \in DOMAIN template_groups :
       template_groups' = [g \in DOMAIN template_groups \ {id} |-> template_groups[g]]
  /\ UNCHANGED <<template_schedules, clock, ticks, activations, executions>>
  /\ UNCHANGED <<renderVars, layoutVars, fontVars, twoVars, postVars, canvasVars>>

NextSched ==
  \/ CronFires
  \/ QueryDue
  \/ QueryDueFails
  \/ ScheduleDeactivates
  \/ ScheduleActivates
  \/ ScheduleMarked
  \/ ScheduleUpdateFails
  \/ ActivateRequested
  \/ ManualDeactivates
  \/ ManualActivates
  \/ ManualUpdateFails
  \/ DeleteTemplateGroup

SpecSched == InitSched /\ [][NextSched]_vars

\* the service while every checkScheduledActivations invocation ends within
\* its minute: the cron job fires when no earlier invocation is running
CronFiresInTurn ==
  /\ \A i \in 1..Len(ticks) : ticks[i].pc = "done"
  /\ CronFires

NextInTurn ==
  \/ CronFiresInTurn
  \/ QueryDue
  \/ QueryDueFails
  \/ ScheduleDeactivates
  \/ ScheduleActivates
  \/ ScheduleMarked
  \/ ScheduleUpdateFails
  \/ ActivateRequested
  \/ ManualDeactivates
  \/ ManualActivates
  \/ ManualUpdateFails
  \/ DeleteTemplateGroup

SpecInTurn == InitSched /\ [][NextInTurn]_vars

----------------------------------------------------------------------------
(* POST /schedules *)

\* a request body: groupId is an optional string, the other fields optional
\* numbers
Body(groupId, year, month, day, hour, minute) ==
  [groupId |-> groupId, year |-> year, month |-> month, day |-> day,
   hour |-> hour, minute |-> minute]

\* !x for an optional number: undefined and 0 are falsy
FalsyNum(x) == ~x.defined \/ x.num = 0

\* new Date(year, month - 1, day, hour, minute) gives back the year, the
\* month and the day it was made from: a year below 100 is taken as 19xx, a
\* day after the last one of the month moves into the next month
DateKept(year, month, day) ==
  /\ ~(0 <= year /\ year <= 99)
  /\ day <= DaysInMonth(year, month)

\* the checks of the route before its first query: the error it answers 400
\* with, or "" when the body passes
Validate(body) ==
  IF \/ ~Truthy(body.groupId) \/ FalsyNum(body.year) \/ FalsyNum(body.month)
     \/ FalsyNum(body.day) \/ ~body.hour.defined \/ ~body.minute.defined
  THEN "All schedule fields are required"
  ELSE IF body.month.num < 1 \/ body.month.num > 12 THEN "Month must be between 1 and 12"
  ELSE IF body.day.num < 1 \/ body.day.num > 31 THEN "Day must be between 1 and 31"
  ELSE IF body.hour.num < 0 \/ body.hour.num > 23 THEN "Hour must be between 0 and 23"
  ELSE IF body.minute.num < 0 \/ body.minute.num > 59 THEN "Minute must be between 0 and 59"
  ELSE IF ~DateKept(body.year.num, body.month.num, body.day.num) THEN "Invalid date"
  ELSE ""

\* SELECT id FROM template_schedules WHERE year = $1 AND ... AND minute = $5
ExistingSchedules(schedules, body) ==
  { i \in DOMAIN schedules :
      /\ schedules[i].year = body.year.num
      /\ schedules[i].month = body.month.num
      /\ schedules[i].day = body.day.num
      /\ schedules[i].hour = body.hour.num
      /\ schedules[i].minute = body.minute.num }

\* the bodies of the requests
Bodies ==
  { Body(Str(<<"g", "1">>), Num(2025), Num(1), Num(1), Num(0), Num(0)),
    Body(Str(<<"g", "2">>), Num(2025), Num(1), Num(1), Num(0), Num(0)),
    Body(Str(<<"g", "1">>), Num(2024), Num(2), Num(29), Num(12), Num(30)),
    Body(Str(<<"g", "1">>), Num(2025), Num(2), Num(29), Num(12), Num(30)),
    Body(Str(<<"g", "1">>), Num(2025), Num(13), Num(1), Num(0), Num(0)),
    Body(Str(<<"g", "2">>), Num(2025), Num(1), Num(1), Num(0), UndefNum) }

\* the POST /schedules requests
MaxPosts == 2

Answered(body, status, error) == [body |-> body, pc |-> "done", status |-> status, error |-> error]

InitPost ==
  /\ posts = << >>
  /\ template_schedules = << >>
  /\ template_groups = << >>
  /\ clock = 0
  /\ ticks = << >>
  /\ activations = << >>
  /\ executions = {}
  /\ CanvasIdle
  /\ RenderIdle
  /\ LayoutIdle
  /\ FontIdle
  /\ TwoIdle

\* a request arrives: the route validates the body and issues its query
PostSchedule ==
  /\ Len(posts) < MaxPosts
  /\ \E body \in Bodies :
       posts' = Append(posts,
                       IF Validate(body) # ""
                       THEN Answered(body, 400, Validate(body))
                       ELSE [body |-> body, pc |-> "check", status |-> 0, error |-> ""])
  /\ UNCHANGED <<template_groups, template_schedules, clock, ticks, activations, executions>>
  /\ UNCHANGED <<renderVars, layoutVars, fontVars, twoVars, canvasVars>>

\* the query for a schedule of the same time returns: 400 when there is one,
\* createSchedule issues its INSERT when there is none
ExistingChecked ==
  /\ \E i \in 1..Len(posts) :
       /\ posts[i].pc = "check"
       /\ posts' = [posts EXCEPT ![i] =
                      IF ExistingSchedules(template_schedules, @.body) # {}
                      THEN Answered(@.body, 400, "A schedule already exists for this date and time")
                      ELSE [@ EXCEPT !.pc = "insert"]]
  /\ UNCHANGED <<template_groups, template_schedules, clock, ticks, activations, executions>>
  /\ UNCHANGED <<renderVars, layoutVars, fontVars, twoVars, canvasVars>>

\* the INSERT of createSchedule is done: the route answers with the schedule
ScheduleCreated ==
  /\ \E i \in 1..Len(posts) :
       LET body == posts[i].body
           id == Len(template_schedules) + 1
       IN  /\ posts[i].pc = "insert"
           /\ template_schedules' =
                Append(template_schedules,
                       Schedule(id, body.groupId.str,
                                Minute(body.year.num, body.month.num, body.day.num,
                                       body.hour.num, body.minute.num)))
           /\ posts' = [posts EXCEPT ![i] = Answered(body, 200, "")]
  /\ UNCHANGED <<template_groups, clock, ticks, activations, executions>>
  /\ UNCHANGED <<renderVars, layoutVars, fontVars, twoVars, canvasVars>>

\* the query or the INSERT rejects: the catch block of the route answers 500
PostQueryFails ==
  /\ \E i \in 1..Len(posts) :
       /\ posts[i].pc \in {"check", "insert"}
       /\ posts' = [posts EXCEPT ![i] = Answered(@.body, 500, "Failed to create schedule")]
  /\ UNCHANGED <<template_groups, template_schedules, clock, ticks, activations, executions>>
  /\ UNCHANGED <<renderVars, layoutVars, fontVars, twoVars, canvasVars>>

NextPost ==
  \/ PostSchedule
  \/ ExistingChecked
  \/ ScheduleCreated
  \/ PostQueryFails

SpecPost == InitPost /\ [][NextPost]_vars

----------------------------------------------------------------------------
(* The template routes of src/routes/canvas.js *)

StartsWith(s, prefix) == Len(s) >= Len(prefix) /\ SubSeq(s, 1, Len(prefix)) = prefix

DataImagePrefix == <<"d", "a", "t", "a", ":", "i", "m", "a", "g", "e", "/">>

Base64Mark == <<";", "b", "a", "s", "e", "6", "4", ",">>

IsLetter(c) ==
  \/ \E j \in 1..Len(LowerCase) : LowerCase[j] = c
  \/ \E j \in 1..Len(UpperCase) : UpperCase[j] = c

\* base64Data.match(/^data:image\/([a-zA-Z]+);base64,(.+)$/): the format it
\* captures, << >> when the string does not match
Base64Format(s) ==
  IF ~StartsWith(s, DataImagePrefix) THEN << >>
  ELSE LET rest == SubSeq(s, Len(DataImagePrefix) + 1, Len(s))
           k == IndexFrom(rest, ";", 1)
       IN  IF /\ k > 1
              /\ \A i \in 1..(k - 1) : IsLetter(rest[i])
              /\ StartsWith(SubSeq(rest, k, Len(rest)), Base64Mark)
              /\ Len(rest) >= k + Len(Base64Mark)
              /\ \A i \in (k + Len(Base64Mark))..Len(rest) : rest[i] # "\n"
           THEN SubSeq(rest, 1, k - 1)
           ELSE << >>

Digits == <<"0", "1", "2", "3", "4", "5", "6", "7", "8", "9">>

\* the URL convertBase64ToFile returns for the n-th file it writes (n stands
\* for the timestamp and the random part of the file name, n < 10)
UploadUrl(prefix, n, format) ==
  <<"B", "A", "S", "E", "_", "U", "R", "L", "/", "u", "p", "l", "o", "a", "d", "s", "/">> \o prefix \o <<"_", Digits[n + 1], ".">> \o format

BackgroundPrefix == <<"b", "a", "c", "k", "g", "r", "o", "u", "n", "d">>

ElementPrefix == <<"e", "l", "e", "m", "e", "n", "t">>

\* JSON.stringify of a config or of an array of elements, and JSON.parse of
\* the stored text: a key whose value is undefined is left out of the text
\* and reads as undefined after the parse, which is the same optional value
JsonStringify(value) == [text |-> value]

JsonParse(stored) == stored.text

\* an element as the template routes read it
StoredElement(id, variableName, type, content, src) ==
  [id |-> id, variableName |-> variableName,
   data |-> [type |-> type, content |-> content, src |-> src]]

\* element.data.type === 'text' ? element.data.content : element.data.src
DefaultValue(element) ==
  IF element.data.type = "text" THEN element.data.content ELSE element.data.src

\* the row of canvas_variables inserted for an element by the request `by`
VariableRow(template_id, element, by) ==
  [template_id |-> template_id, variable_name |-> element.variableName,
   element_id |-> element.id, element_type |-> element.data.type,
   default_value |-> DefaultValue(element), by |-> by]

PngData == <<"d", "a", "t", "a", ":", "i", "m", "a", "g", "e", "/", "p", "n", "g", ";", "b", "a", "s", "e", "6", "4", ",", "Q", "Q", "=", "=">>

SvgData == <<"d", "a", "t", "a", ":", "i", "m", "a", "g", "e", "/", "s", "v", "g", "+", "x", "m", "l", ";", "b", "a", "s", "e", "6", "4", ",", "Q", "Q", "=", "=">>

PlainUrl == <<"/", "a", ".", "p", "n", "g">>

TextOne == StoredElement("e1", NameA, "text", Str(<<"H", "i">>), Undefined)

ImageData == StoredElement("e2", NameB, "image", Undefined, Str(PngData))

ImageSvg == StoredElement("e2", NameB, "image", Undefined, Str(SvgData))

ImagePlain == StoredElement("e3", NameB, "image", Undefined, Str(PlainUrl))

RequestBody(name, backgroundImage, els) ==
  [name |-> name, config |-> [defined |-> TRUE, backgroundImage |-> backgroundImage],
   elements |-> [defined |-> TRUE, list |-> els]]

\* the bodies of POST /templates and PUT /templates/:id
TemplateBodies ==
  { RequestBody(Str(<<"o", "l", "d">>), Str(PngData), <<TextOne, ImageData>>),
    RequestBody(Str(<<"n", "e", "w">>), Undefined, <<TextOne, ImagePlain>>),
    RequestBody(Str(<<"s", "v", "g">>), Undefined, <<ImageSvg>>),
    RequestBody(Str(<< >>), Undefined, << >>) }

\* the row of canvas_templates written from a body
TemplateRow(body) ==
  [name |-> body.name.str,
   config |-> JsonStringify([backgroundImage |-> body.config.backgroundImage]),
   elements |-> JsonStringify(body.elements.list)]

\* the template the store holds at the start: saved by a POST that succeeded
FirstBody == RequestBody(Str(<<"o", "l", "d">>), Str(PngData), <<TextOne, ImageData>>)

\* the requests to the template routes
MaxCalls == 2

Call(route, id, body, callPc) ==
  [route |-> route, id |-> id, body |-> body, pc |-> callPc, status |-> 0,
   pending |-> {}, failed |-> FALSE, tasks |-> << >>]

Respond(call, status) == [call EXCEPT !.pc = "done", !.status = status, !.tasks = << >>]

\* where the async callback of GET /templates is for one template: at its
\* next convertBase64ToFile from position `from` on (0: the background,
\* k: element k), at the UPDATE (one more than the elements), or at its end
NextStop(task, from) ==
  LET n == Len(task.elements)
      stops == { k \in from..n :
                   IF k = 0
                   THEN /\ Truthy(task.config.backgroundImage)
                        /\ StartsWith(task.config.backgroundImage.str, DataImagePrefix)
                   ELSE /\ task.elements[k].data.type = "image"
                        /\ Truthy(task.elements[k].data.src)
                        /\ StartsWith(task.elements[k].data.src.str, DataImagePrefix) }
  IN  IF stops # {} THEN CHOOSE k \in stops : \A j \in stops : k <= j
      ELSE IF task.templateUpdated THEN n + 1
      ELSE n + 2

\* the callback for one row of the SELECT, up to its first await
StartTask(id, row) ==
  LET task == [id |-> id, config |-> JsonParse(row.config), elements |-> JsonParse(row.elements),
               templateUpdated |-> FALSE, at |-> 0]
  IN  [task EXCEPT !.at = NextStop(task, 0)]

\* the string the task is converting
Converting(task) ==
  IF task.at = 0 THEN task.config.backgroundImage.str ELSE task.elements[task.at].data.src.str

\* convertBase64ToFile has resolved with imageUrl
AfterConversion(task, imageUrl) ==
  LET t == IF task.at = 0
           THEN [task EXCEPT !.config.backgroundImage = Str(imageUrl), !.templateUpdated = TRUE]
           ELSE [task EXCEPT !.elements[task.at].data.src = Str(imageUrl), !.templateUpdated = TRUE]
  IN  [t EXCEPT !.at = NextStop(t, task.at + 1)]

\* convertBase64ToFile has rejected: the catch block logs
AfterFailedConversion(task) == [task EXCEPT !.at = NextStop(task, task.at + 1)]

TaskEnded(task) == task.at = Len(task.elements) + 2

\* a step of one callback is made: the route answers when all have ended
AfterTask(call, t, task) ==
  LET tasks == [call.tasks EXCEPT ![t] = task]
  IN  IF \A n \in 1..Len(tasks) : TaskEnded(tasks[n])
      THEN Respond(call, 200)
      ELSE [call EXCEPT !.tasks = tasks]

\* one INSERT INTO canvas_variables has settled: Promise.all rejects with the
\* first failure (the route answers 500 while the other INSERTs go on) and
\* resolves when the last one is done; the request is over when none is left
AfterInsert(call, e, ok) ==
  LET failed == call.failed \/ ~ok
      left == call.pending \ {e}
  IN  [call EXCEPT !.pending = left, !.failed = failed,
                   !.status = IF failed THEN 500 ELSE IF left = {} THEN 200 ELSE 0,
                   !.pc = IF left = {} THEN "done" ELSE "variables"]

\* the elements.map(...) of POST and PUT has issued its INSERTs
WithInserts(call) ==
  LET n == Len(call.body.elements.list)
  IN  IF n = 0 THEN Respond(call, 200)
      ELSE [call EXCEPT !.pc = "variables", !.pending = 1..n]

InitCanvas ==
  /\ canvas_templates = [id \in {0} |-> TemplateRow(FirstBody)]
  /\ canvas_variables = { VariableRow(0, FirstBody.elements.list[e], 0) :
                            e \in 1..Len(FirstBody.elements.list) }
  /\ calls = << >>
  /\ uploads = 0
  /\ SchedIdle
  /\ PostIdle
  /\ RenderIdle
  /\ LayoutIdle
  /\ FontIdle
  /\ TwoIdle

\* POST /templates: 400 for a body without name, config or elements, else
\* the INSERT of the template is issued under a new id
PostTemplate ==
  /\ Len(calls) < MaxCalls
  /\ \E body \in TemplateBodies :
       LET call == Call("POST", Len(calls) + 1, body, "insertTemplate")
       IN  calls' = Append(calls,
                           IF ~Truthy(body.name) \/ ~body.config.defined \/ ~body.elements.defined
                           THEN Respond(call, 400)
                           ELSE call)
  /\ UNCHANGED <<canvas_templates, canvas_variables, uploads>>
  /\ UNCHANGED <<renderVars, layoutVars, fontVars, twoVars, schedVars, postVars>>

\* the INSERT INTO canvas_templates is done: the INSERTs of the variables are issued
TemplateInserted ==
  /\ \E c \in 1..Len(calls) :
       /\ calls[c].pc = "insertTemplate"
       /\ canvas_templates' =
            [id \in DOMAIN canvas_templates \cup {calls[c].id} |->
               IF id = calls[c].id THEN TemplateRow(calls[c].body) ELSE canvas_templates[id]]
       /\ calls' = [calls EXCEPT ![c] = WithInserts(@)]
  /\ UNCHANGED <<canvas_variables, uploads>>
  /\ UNCHANGED <<renderVars, layoutVars, fontVars, twoVars, schedVars, postVars>>

\* one INSERT INTO canvas_variables is done (the template row it refers to exists)
VariableInserted ==
  /\ \E c \in 1..Len(calls) :
       /\ calls[c].pc = "variables"
       /\ calls[c].id \in DOMAIN canvas_templates
       /\ \E e \in calls[c].pending :
            /\ canvas_variables' = canvas_variables \cup
                 {VariableRow(calls[c].id, calls[c].body.elements.list[e], c)}
            /\ calls' = [calls EXCEPT ![c] = AfterInsert(@, e, TRUE)]
  /\ UNCHANGED <<canvas_templates, uploads>>
  /\ UNCHANGED <<renderVars, layoutVars, fontVars, twoVars, schedVars, postVars>>

\* one INSERT INTO canvas_variables rejects
VariableInsertFails ==
  /\ \E c \in 1..Len(calls) :
       /\ calls[c].pc = "variables"
       /\ \E e \in calls[c].pending :
            calls' = [calls EXCEPT ![c] = AfterInsert(@, e, FALSE)]
  /\ UNCHANGED <<canvas_templates, canvas_variables, uploads>>
  /\ UNCHANGED <<renderVars, layoutVars, fontVars, twoVars, schedVars, postVars>>

\* PUT /templates/:id: the SELECT for the template is issued
PutTemplate ==
  /\ Len(calls) < MaxCalls
  /\ \E body \in TemplateBodies, id \in 0..1 :
       calls' = Append(calls, Call("PUT", id, body, "exists"))
  /\ UNCHANGED <<canvas_templates, canvas_variables, uploads>>
  /\ UNCHANGED <<renderVars, layoutVars, fontVars, twoVars, schedVars, postVars>>

\* the SELECT of PUT returns: 404, or the UPDATE is issued
TemplateFound ==
  /\ \E c \in 1..Len(calls) :
       /\ calls[c].pc = "exists"
       /\ calls' = [calls EXCEPT ![c] =
                      IF @.id \in DOMAIN canvas_templates
                      THEN [@ EXCEPT !.pc = "update"]
                      ELSE Respond(@, 404)]
  /\ UNCHANGED <<canvas_templates, canvas_variables, uploads>>
  /\ UNCHANGED <<renderVars, layoutVars, fontVars, twoVars, schedVars, postVars>>

\* the UPDATE of PUT is done (on no row when the template is gone)
TemplateUpdated ==
  /\ \E c \in 1..Len(calls) :
       /\ calls[c].pc = "update"
       /\ canvas_templates' =
            [id \in DOMAIN canvas_templates |->
               IF id = calls[c].id THEN TemplateRow(calls[c].body) ELSE canvas_templates[id]]
       /\ calls' = [calls EXCEPT ![c].pc = "deleteVariables"]
  /\ UNCHANGED <<canvas_variables, uploads>>
  /\ UNCHANGED <<renderVars, layoutVars, fontVars, twoVars, schedVars, postVars>>

\* the DELETE FROM canvas_variables of PUT is done: the INSERTs are issued
VariablesDeleted ==
  /\ \E c \in 1..Len(calls) :
       /\ calls[c].pc = "deleteVariables"
       /\ canvas_variables' = { v \in canvas_variables : v.template_id # calls[c].id }
       /\ calls' = [calls EXCEPT ![c] = WithInserts(@)]
  /\ UNCHANGED <<canvas_templates, uploads>>
  /\ UNCHANGED <<renderVars, layoutVars, fontVars, twoVars, schedVars, postVars>>

\* GET /templates: the SELECT of all templates is issued
GetTemplates ==
  /\ Len(calls) < MaxCalls
  /\ calls' = Append(calls, Call("GET", 0, RequestBody(Undefined, Undefined, << >>), "select"))
  /\ UNCHANGED <<canvas_templates, canvas_variables, uploads>>
  /\ UNCHANGED <<renderVars, layoutVars, fontVars, twoVars, schedVars, postVars>>

\* the SELECT of GET returns: one callback a row, each run to its first await
\* (the callbacks do not read one another: the order of the rows is not kept)
TemplatesSelected ==
  /\ \E c \in 1..Len(calls) :
       /\ calls[c].pc = "select"
       /\ LET ids == DOMAIN canvas_templates
              order == CHOOSE q \in [1..Cardinality(ids) -> ids] :
                         \A i, j \in 1..Cardinality(ids) : i < j => q[i] < q[j]
              tasks == [n \in 1..Cardinality(ids) |-> StartTask(order[n], canvas_templates[order[n]])]
          IN  calls' = [calls EXCEPT ![c] =
                          IF \A n \in 1..Len(tasks) : TaskEnded(tasks[n])
                          THEN Respond(@, 200)
                          ELSE [@ EXCEPT !.pc = "convert", !.tasks = tasks]]
  /\ UNCHANGED <<canvas_templates, canvas_variables, uploads>>
  /\ UNCHANGED <<renderVars, layoutVars, fontVars, twoVars, schedVars, postVars>>

\* convertBase64ToFile resolves: the file is written, the URL replaces the data
ImageConverted ==
  /\ \E c \in 1..Len(calls) :
       /\ calls[c].pc = "convert"
       /\ \E t \in 1..Len(calls[c].tasks) :
            LET task == calls[c].tasks[t]
                format == Base64Format(Converting(task))
            IN  /\ task.at <= Len(task.elements)
                /\ format # << >>
                /\ calls' = [calls EXCEPT ![c] =
                               AfterTask(@, t, AfterConversion(task,
                                 UploadUrl(IF task.at = 0 THEN BackgroundPrefix ELSE ElementPrefix,
                                           uploads, format)))]
  /\ uploads' = uploads + 1
  /\ UNCHANGED <<canvas_templates, canvas_variables>>
  /\ UNCHANGED <<renderVars, layoutVars, fontVars, twoVars, schedVars, postVars>>

\* convertBase64ToFile rejects (no match of the data, or the file not written)
ImageConversionFails ==
  /\ \E c \in 1..Len(calls) :
       /\ calls[c].pc = "convert"
       /\ \E t \in 1..Len(calls[c].tasks) :
            /\ calls[c].tasks[t].at <= Len(calls[c].tasks[t].elements)
            /\ calls' = [calls EXCEPT ![c] = AfterTask(@, t, AfterFailedConversion(@.tasks[t]))]
  /\ UNCHANGED <<canvas_templates, canvas_variables, uploads>>
  /\ UNCHANGED <<renderVars, layoutVars, fontVars, twoVars, schedVars, postVars>>

\* the UPDATE of a converted template is done, or rejects (the catch logs)
ConvertedTemplateSaved ==
  /\ \E c \in 1..Len(calls) :
       /\ calls[c].pc = "convert"
       /\ \E t \in 1..Len(calls[c].tasks), ok \in BOOLEAN :
            LET task == calls[c].tasks[t]
            IN  /\ task.at = Len(task.elements) + 1
                /\ canvas_templates' =
                     [id \in DOMAIN canvas_templates |->
                        IF ok /\ id = task.id
                        THEN [canvas_templates[id] EXCEPT
                                !.config = JsonStringify(task.config),
                                !.elements = JsonStringify(task.elements)]
                        ELSE canvas_templates[id]]
                /\ calls' = [calls EXCEPT ![c] = AfterTask(@, t, [task EXCEPT !.at = @ + 1])]
  /\ UNCHANGED <<canvas_variables, uploads>>
  /\ UNCHANGED <<renderVars, layoutVars, fontVars, twoVars, schedVars, postVars>>

\* DELETE /templates/:id: the DELETE is issued
DeleteTemplate ==
  /\ Len(calls) < MaxCalls
  /\ \E id \in 0..1 :
       calls' = Append(calls, Call("DELETE", id, RequestBody(Undefined, Undefined, << >>), "delete"))
  /\ UNCHANGED <<canvas_templates, canvas_variables, uploads>>
  /\ UNCHANGED <<renderVars, layoutVars, fontVars, twoVars, schedVars, postVars>>

\* the DELETE is done: the rows of canvas_variables go with the template
\* (ON DELETE CASCADE); 404 when no row was deleted
TemplateDeleted ==
  /\ \E c \in 1..Len(calls) :
       /\ calls[c].pc = "delete"
       /\ canvas_templates' =
            [id \in DOMAIN canvas_templates \ {calls[c].id} |-> canvas_templates[id]]
       /\ canvas_variables' =
            IF calls[c].id \in DOMAIN canvas_templates
            THEN { v \in canvas_variables : v.template_id # calls[c].id }
            ELSE canvas_variables
       /\ calls' = [calls EXCEPT ![c] =
                      Respond(@, IF @.id \in DOMAIN canvas_templates THEN 200 ELSE 404)]
  /\ UNCHANGED uploads
  /\ UNCHANGED <<renderVars, layoutVars, fontVars, twoVars, schedVars, postVars>>

\* a query of a route rejects outside an inner try block: the route answers 500
TemplateQueryFails ==
  /\ \E c \in 1..Len(calls) :
       /\ calls[c].pc \in {"insertTemplate", "exists", "update", "deleteVariables", "select", "delete"}
       /\ calls' = [calls EXCEPT ![c] = Respond(@, 500)]
  /\ UNCHANGED <<canvas_templates, canvas_variables, uploads>>
  /\ UNCHANGED <<renderVars, layoutVars, fontVars, twoVars, schedVars, postVars>>

NextCanvas ==
  \/ PostTemplate
  \/ TemplateInserted
  \/ VariableInserted
  \/ VariableInsertFails
  \/ PutTemplate
  \/ TemplateFound
  \/ TemplateUpdated
  \/ VariablesDeleted
  \/ GetTemplates
  \/ TemplatesSelected
  \/ ImageConverted
  \/ ImageConversionFails
  \/ ConvertedTemplateSaved
  \/ DeleteTemplate
  \/ TemplateDeleted
  \/ TemplateQueryFails

SpecCanvas == InitCanvas /\ [][NextCanvas]_vars

----------------------------------------------------------------------------
(* Properties *)

\* the draw calls of element i, in the order they were issued
OpsOf(i) == SelectSeq(ops, LAMBDA o : o.el = i)


Drawable(element) == element.data.type \in {"text", "image"}

HasArea(r) == RLt(R(0), r.w) /\ RLt(R(0), r.h)

\* a draw call of element i is one the i-th element of the array can issue
IssuedBy(op, element) ==
  /\ Drawable(element)
  /\ element.data.type = "text" =>
       /\ op.kind = "fillText"
       /\ op.rect.x = R(element.x)
  /\ element.data.type = "image" /\ op.kind \in {"fillRect", "strokeRect"} =>
       /\ op.rect.x = R(element.x)
       /\ op.rect.y = R(element.y)

\* C1: the draw calls are issued in this order: the white fill of the whole
\* canvas, then the background image (if it is set and loads) stretched over
\* the whole canvas, then the calls of element 1, then those of element 2, ...;
\* no call of an element is issued while the background or an earlier element
\* is still loading, so a later element is painted over an earlier one.
C1_DrawOrder ==
  /\ canvas.created =>
       /\ Len(ops) >= 1
       /\ ops[1].el = 0
       /\ ops[1].kind = "fillRect"
       /\ ops[1].ctx.fillStyle = "white"
       /\ ~ops[1].ctx.clip.on
       /\ ops[1].rect = Rect(R(0), R(0), R(canvas.width), R(canvas.height))
  /\ \A k \in 2..Len(ops) :
       ops[k].el = 0 =>
         /\ k = 2
         /\ Truthy(config.backgroundImage)
         /\ ops[k].kind = "drawImage"
         /\ ops[k].arg = config.backgroundImage.str
         /\ ops[k].rect = Rect(R(0), R(0), R(canvas.width), R(canvas.height))
  /\ \A k \in 1..(Len(ops) - 1) : ops[k].el <= ops[k + 1].el
  /\ \A k \in 1..Len(ops) :
       /\ ops[k].el <= idx
       /\ ops[k].el >= 1 => IssuedBy(ops[k], elements[ops[k].el])
  /\ pc = "background" => Len(ops) = 1
  /\ pc = "loading" => \A k \in 1..Len(ops) : ops[k].el < idx
  /\ pc = "returned" =>
       \A i \in 1..Len(elements) : Drawable(elements[i]) => OpsOf(i) # << >>

\* a finished render with a background and two image elements that overlap
C1_Witness ==
  /\ pc = "returned"
  /\ Len(ops) >= 4
  /\ ops[2].el = 0
  /\ \E k, l \in 3..Len(ops) :
       /\ ops[k].el = 1
       /\ ops[l].el = 2
       /\ ops[k].kind \in {"fillRect", "drawImage"}
       /\ ops[l].kind \in {"fillRect", "drawImage"}
       /\ HasArea(RectIntersect(Painted(ops[k]), Painted(ops[l])))

\* C2: for a template of positive width and height the call never throws,
\* whatever elements fail, and it goes on until it returns the buffer.
C2_NoElementFailureEscapes ==
  PositiveSize(config) =>
    /\ pc \in {"start", "background", "elements", "loading", "returned"}
    /\ pc = "elements" => idx \in 1..(Len(elements) + 1)
    /\ pc = "loading" => idx \in 1..Len(elements)
    /\ pc = "returned" => canvas.created /\ Len(outcomes) = Len(elements)

\* a returned render in which a text element and an image element both failed
C2_Witness ==
  /\ PositiveSize(config)
  /\ pc = "returned"
  /\ \E i, j \in 1..Len(outcomes) :
       outcomes[i].what = "textFailed" /\ outcomes[j].what = "loadFailed"

\* C3: the call fails, and returns no image, whenever config.width or
\* config.height is zero or negative; it never renders at another size.
C3_NonPositiveSizeFails ==
  (\/ config.width.defined /\ config.width.num <= 0
   \/ config.height.defined /\ config.height.num <= 0)
    => ~canvas.created /\ pc # "returned"

\* the texts of the fillText calls of element i
DrawnLines(i) == LET o == OpsOf(i) IN [k \in 1..Len(o) |-> o[k].arg]

\* the lines a text lays out to under the element's font size and maxWidth
LinesOf(element, t) ==
  LayoutLines(TextContext(NewContext, element), t, OrNum(element.data.maxWidth, 400))

\* the text of an element by the precedence: runtime value when it exists and
\* is non-empty, else the content when present, else the placeholder
TextAsClaimed(element, value) ==
  IF Truthy(value) THEN value.str
  ELSE IF element.data.content.defined THEN element.data.content.str
  ELSE Placeholder(element.variableName)

\* C4 as stated: a text element that is drawn without failure shows the
\* runtime value when it exists and is non-empty, otherwise its content when
\* present, otherwise "{variableName}".
C4_TextPrecedenceAsClaimed ==
  \A i \in 1..Len(outcomes) :
    outcomes[i].what = "text" =>
      DrawnLines(i) = LinesOf(elements[i], TextAsClaimed(elements[i], VariableValue(elements[i])))

\* the same precedence with an empty content treated like a missing one
TextAmended(element, value) ==
  IF Truthy(value) THEN value.str
  ELSE IF element.data.content.defined /\ element.data.content.str # << >>
       THEN element.data.content.str
  ELSE Placeholder(element.variableName)

\* C4 amended: a text element that is drawn without failure shows the runtime
\* value when it exists and is non-empty, otherwise its content when present
\* and non-empty, otherwise "{variableName}" (also for a content that is the
\* empty string); a missing or empty runtime value never aborts the render.
C4_TextPrecedence ==
  /\ \A i \in 1..Len(outcomes) :
       outcomes[i].what = "text" =>
         DrawnLines(i) = LinesOf(elements[i], TextAmended(elements[i], VariableValue(elements[i])))
  /\ canvas.created => pc # "thrown"

\* a returned render that drew "{a}" for a text element whose content is the
\* empty string and whose runtime value is missing or empty
C4_Witness ==
  /\ pc = "returned"
  /\ \E i \in 1..Len(outcomes) :
       /\ outcomes[i].what = "text"
       /\ elements[i].data.content = Str(<< >>)
       /\ ~Truthy(VariableValue(elements[i]))
       /\ DrawnLines(i) = <<Placeholder(elements[i].variableName)>>

\* the target size of a placeholder rectangle: the element's own width and
\* height, 150 and 100 where they are not specified
TargetW(element) == IF element.data.width.defined THEN element.data.width.num ELSE 150

TargetH(element) == IF element.data.height.defined THEN element.data.height.num ELSE 100

\* the three calls of a labelled rectangle at the element's target rectangle
LabelledRect(o, element, fill, stroke, label) ==
  LET r == Rect(R(element.x), R(element.y), R(TargetW(element)), R(TargetH(element)))
  IN  /\ Len(o) = 3
      /\ o[1].kind = "fillRect" /\ o[1].rect = r /\ o[1].ctx.fillStyle = fill
      /\ o[2].kind = "strokeRect" /\ o[2].rect = r /\ o[2].ctx.strokeStyle = stroke
      /\ o[3].kind = "fillText" /\ o[3].arg = label
      /\ RAdd(o[3].rect.x, o[3].rect.x) = RAdd(RAdd(r.x, r.x), r.w)
      /\ RAdd(o[3].rect.y, o[3].rect.y) = RAdd(RAdd(r.y, r.y), r.h)
      /\ \A k \in 1..3 : ~o[k].ctx.clip.on

NoSource(element) == ~Truthy(VariableValue(element)) /\ ~element.data.src.defined

LaterDrawn(i) ==
  pc = "returned" =>
    \A j \in (i + 1)..Len(elements) : Drawable(elements[j]) => OpsOf(j) # << >>

\* C6: when the load of an image element's source fails, the rectangle
\* labelled "Failed to load" is drawn at the element's target rectangle in
\* colours of its own, nothing is thrown, and the later elements are drawn.
C6_LoadFailureFallback ==
  /\ \A i \in 1..Len(outcomes) :
       outcomes[i].what = "loadFailed" =>
         /\ LabelledRect(OpsOf(i), elements[i], "#ffebee", "#f44336", FailedToLoadLabel)
         /\ OpsOf(i)[3].ctx.fillStyle = "#f44336"
         /\ LaterDrawn(i)
  /\ canvas.created => pc # "thrown"
  /\ pc = "returned" => Len(outcomes) = Len(elements)

\* a returned render whose first element failed to load and whose second
\* element was drawn after it
C6_Witness ==
  /\ pc = "returned"
  /\ Len(outcomes) = 2
  /\ outcomes[1].what = "loadFailed"
  /\ outcomes[2].what \in {"text", "loaded"}
  /\ OpsOf(2) # << >>

\* C7: when measuring or drawing a text element throws, the line
\* "Error loading text" is drawn at (x, y) in #ff0000, 16px Arial, left
\* aligned, nothing is thrown, and the later elements are drawn.
C7_TextFailureFallback ==
  /\ \A i \in 1..Len(outcomes) :
       outcomes[i].what = "textFailed" =>
         LET o == OpsOf(i)
         IN  /\ Len(o) >= 1
             /\ o[Len(o)].kind = "fillText"
             /\ o[Len(o)].arg = ErrorLoadingText
             /\ o[Len(o)].rect.x = R(elements[i].x)
             /\ o[Len(o)].rect.y = R(elements[i].y)
             /\ o[Len(o)].ctx.fillStyle = "#ff0000"
             /\ o[Len(o)].ctx.font = Font("normal", 16, "Arial")
             /\ o[Len(o)].ctx.textAlign = "left"
             /\ \A k \in 1..(Len(o) - 1) : o[k].arg # ErrorLoadingText
             /\ LaterDrawn(i)
  /\ canvas.created => pc # "thrown"
  /\ pc = "returned" => Len(outcomes) = Len(elements)

\* a returned render whose first element is a centred text that failed and
\* whose second element was drawn after it
C7_Witness ==
  /\ pc = "returned"
  /\ Len(outcomes) = 2
  /\ outcomes[1].what = "textFailed"
  /\ elements[1].data.textAlign = "center"
  /\ outcomes[2].what \in {"text", "loaded", "noSource"}
  /\ OpsOf(2) # << >>

\* the target rectangle of a loaded image: the element's width and height,
\* the natural size where they are not set
FitTarget(element, size) ==
  Rect(R(element.x), R(element.y),
       R(IF element.data.width.defined THEN element.data.width.num ELSE size[1]),
       R(IF element.data.height.defined THEN element.data.height.num ELSE size[2]))

LoadedWithSize(i) ==
  /\ outcomes[i].what = "loaded"
  /\ outcomes[i].size[1] > 0
  /\ outcomes[i].size[2] > 0

\* C8: an image element whose objectFit is unset, or is neither cover nor
\* contain, is stretched to exactly its target rectangle, with no
\* aspect-preserving scale and no clip.
C8_UnsetObjectFitFills ==
  \A i \in 1..Len(outcomes) :
    LoadedWithSize(i) /\ elements[i].data.objectFit \notin {"cover", "contain"} =>
      LET o == OpsOf(i)
      IN  /\ Len(o) = 1
          /\ o[1].kind = "drawImage"
          /\ o[1].rect = FitTarget(elements[i], outcomes[i].size)
          /\ ~o[1].ctx.clip.on

SameAspect(r, size) == RMul(r.w, R(size[2])) = RMul(r.h, R(size[1]))

SameCentre(r, t) ==
  /\ RAdd(RAdd(r.x, r.x), r.w) = RAdd(RAdd(t.x, t.x), t.w)
  /\ RAdd(RAdd(r.y, r.y), r.h) = RAdd(RAdd(t.y, t.y), t.h)

\* C9: for objectFit = cover, a loaded source of positive natural size and a
\* positive target, the image is drawn once, scaled by the larger of the two
\* ratios (aspect kept, the target covered, one side equal to the target's),
\* centred on the target and clipped to exactly the target rectangle, so the
\* region the call can change is the target rectangle; the clip is gone again
\* when the routine ends, so the only clip a call is ever issued under is the
\* target rectangle of its own element.
C9_CoverGeometry ==
  /\ \A i \in 1..Len(outcomes) :
       LoadedWithSize(i) /\ elements[i].data.objectFit = "cover" =>
         LET o == OpsOf(i)
             t == FitTarget(elements[i], outcomes[i].size)
         IN  /\ Len(o) = 1
             /\ o[1].kind = "drawImage"
             /\ SameAspect(o[1].rect, outcomes[i].size)
             /\ RectInside(t, o[1].rect)
             /\ o[1].rect.w = t.w \/ o[1].rect.h = t.h
             /\ SameCentre(o[1].rect, t)
             /\ o[1].ctx.clip = [on |-> TRUE, rect |-> t]
             /\ Painted(o[1]) = t
  /\ \A k \in 1..Len(ops) :
       ops[k].ctx.clip.on =>
         /\ ops[k].el >= 1
         /\ ops[k].kind = "drawImage"
         /\ ops[k].ctx.clip.rect = FitTarget(elements[ops[k].el], outcomes[ops[k].el].size)
  /\ ~ctx.clip.on

\* a returned render whose first element is a cover image of natural size 2 x 2
\* in a 4 x 2 target (scaled to 4 x 4, one unit cut off above and below),
\* followed by a second element that was drawn
C9_Witness ==
  /\ pc = "returned"
  /\ Len(outcomes) = 2
  /\ LoadedWithSize(1)
  /\ outcomes[1].size = <<2, 2>>
  /\ elements[1].data.objectFit = "cover"
  /\ OpsOf(1)[1].rect.h = R(4)
  /\ RLt(OpsOf(1)[1].rect.y, R(elements[1].y))
  /\ OpsOf(2) # << >>

\* C10: for objectFit = contain, a loaded source of positive natural size and
\* a positive target, the image is drawn once, scaled by the smaller of the two
\* ratios (aspect kept, one side equal to the target's), centred on the target
\* and entirely inside it, and no clip is in force.
C10_ContainGeometry ==
  \A i \in 1..Len(outcomes) :
    LoadedWithSize(i) /\ elements[i].data.objectFit = "contain" =>
      LET o == OpsOf(i)
          t == FitTarget(elements[i], outcomes[i].size)
      IN  /\ Len(o) = 1
          /\ o[1].kind = "drawImage"
          /\ SameAspect(o[1].rect, outcomes[i].size)
          /\ RectInside(o[1].rect, t)
          /\ RLe(o[1].rect.w, t.w) /\ RLe(o[1].rect.h, t.h)
          /\ o[1].rect.w = t.w \/ o[1].rect.h = t.h
          /\ SameCentre(o[1].rect, t)
          /\ ~o[1].ctx.clip.on
          /\ Painted(o[1]) = o[1].rect

\* a returned render with a contain image of natural size 8 x 2 in a 4 x 2
\* target: scaled to 4 x 1 and letterboxed above and below
C10_Witness ==
  /\ pc = "returned"
  /\ \E i \in 1..Len(outcomes) :
       /\ LoadedWithSize(i)
       /\ outcomes[i].size = <<8, 2>>
       /\ elements[i].data.objectFit = "contain"
       /\ OpsOf(i)[1].rect.h = R(1)
       /\ RLt(R(elements[i].y), OpsOf(i)[1].rect.y)

----------------------------------------------------------------------------
(* Properties of the text layout *)

Width(line) == MeasureText(LayoutContext, line)

\* the number of maximal runs of characters that are not whitespace
WordCount(line) ==
  Cardinality({ i \in 1..Len(line) :
                  /\ line[i] \notin Whitespace
                  /\ (i = 1 \/ line[i - 1] \in Whitespace) })

C12_WrapIdempotent == stage = "relaid" => relaid = lines

\* a text that was wrapped into two lines or more, one of them wider than
\* maxWidth, and laid out again
C12_Witness ==
  /\ stage = "relaid"
  /\ \E s \in 1..Len(laid) : laid[s].wide /\ Len(laid[s].lines) >= 2
  /\ \E k \in 1..Len(lines) : Width(lines[k]) > LayoutMaxWidth
  /\ LayoutMaxWidth > 0

\* the ends of the prefixes of a line that were measured when a word was added:
\* the prefix holds a space and ends where a word ends
AddedWordEnds(line) ==
  { q \in 1..Len(line) :
      /\ q = Len(line) \/ line[q + 1] = " "
      /\ \E p \in 1..q : line[p] = " " }

----------------------------------------------------------------------------
(* Properties of the text placement and the font *)

\* C18: for a text element with a fontFamily, the family has been requested
\* from the font manager and the lines are drawn in the family it returned.
C18_FontFromCollaborator ==
  \A i \in 1..Len(outcomes) :
    outcomes[i].what = "text" /\ elements[i].data.fontFamily.defined =>
      \E k \in 1..Len(ensured) :
        /\ ensured[k].family = FontFamilyOf(elements[i])
        /\ \A j \in 1..Len(OpsOf(i)) : OpsOf(i)[j].ctx.font.family = ensured[k].value.lit

\* C14: the k-th line (k = 0, 1, ...) of a text element drawn without failure
\* has its baseline at y + fontSize + k * 1.2 * fontSize.
C14_BaselineAtYPlusFontSize ==
  \A i \in 1..Len(outcomes) :
    outcomes[i].what = "text" =>
      LET o == OpsOf(i)
          f == OrNum(elements[i].data.fontSize, 16)
      IN  \A k \in 1..Len(o) :
            BaselineY(o[k]) = RAdd(R(elements[i].y + f), RMul(R((k - 1) * f), <<6, 5>>))

\* C20: an image that loads with a natural width or height of zero is drawn
\* once, at (element.x, element.y), with no scale computed from the zero
\* dimension (every argument finite) and no clip, whatever its objectFit.
C20_ZeroNaturalSizeUnscaled ==
  \A i \in 1..Len(outcomes) :
    (/\ outcomes[i].what = "loaded"
     /\ outcomes[i].size[1] = 0 \/ outcomes[i].size[2] = 0) =>
      LET o == OpsOf(i)
      IN  /\ Len(o) = 1
          /\ o[1].kind = "drawImage"
          /\ RectFinite(o[1].rect)
          /\ o[1].rect.x = R(elements[i].x)
          /\ o[1].rect.y = R(elements[i].y)
          /\ ~o[1].ctx.clip.on

\* C21: a render that returns its buffer has left no element undrawn: every
\* element of the template is a text or an image and has issued a draw call
\* (an element of another type makes the render fail instead).
C21_UnknownTypeRejected ==
  pc = "returned" =>
    \A i \in 1..Len(elements) :
      /\ elements[i].data.type \in {"text", "image"}
      /\ OpsOf(i) # << >>

----------------------------------------------------------------------------
(* Properties of two concurrent calls *)

\* what the routine of element i can leave behind when it starts from context
\* c and ends as the outcome says
ElementResults(i, c, element, value, outcome) ==
  IF outcome.what = "text"
  THEN {DrawTextElement(i, c, element, value, LineCount(c, element, value) + 1)}
  ELSE IF outcome.what = "textFailed"
  THEN {DrawTextElement(i, c, element, value, f) : f \in 0..LineCount(c, element, value)}
  ELSE IF outcome.what = "noSource"
  THEN {ImagePlaceholder(i, c, element)}
  ELSE IF outcome.what = "loaded"
  THEN {DrawLoadedImage(i, c, element, Image(ResolveSrc(element, value).str, outcome.size))}
  ELSE IF outcome.what = "loadFailed"
  THEN {ImageFallback(i, c, element)}
  ELSE {[ctx |-> c, ops |-> << >>, thrown |-> FALSE]}

\* the contexts and draw calls a call running by itself can have after its
\* first n elements, with the same arguments and the same outcomes
RECURSIVE AloneRuns(_, _)
AloneRuns(call, n) ==
  IF n = 0
  THEN LET w == CanvasWidth(call.config)
           h == CanvasHeight(call.config)
           c == [NewContext EXCEPT !.fillStyle = "white"]
           fill == <<FillRect(0, c, R(0), R(0), R(w), R(h))>>
           bg == call.config.backgroundImage
       IN  {[ctx |-> c, ops |-> fill]} \cup
           (IF Truthy(bg)
            THEN {[ctx |-> c,
                   ops |-> Append(fill, DrawImage(0, c, Image(bg.str, <<0, 0>>),
                                                  R(0), R(0), R(w), R(h)))]}
            ELSE {})
  ELSE UNION { { [ctx |-> res.ctx, ops |-> r.ops \o res.ops] :
                   res \in ElementResults(n, r.ctx, call.elements[n],
                                           call.params[call.elements[n].variableName],
                                           call.outcomes[n]) } :
               r \in AloneRuns(call, n - 1) }

AsAlone(call) ==
  call.canvas.created =>
    [ctx |-> call.ctx, ops |-> call.ops] \in AloneRuns(call, Len(call.outcomes))

\* C17: whatever the interleaving of two calls, the draw calls each of them
\* has issued, and the context it holds, are those of the call running by
\* itself on its template and params with the same outcomes of its loads; with
\* positive sizes both calls go through to their buffers.
C17_CallsIndependent ==
  /\ AsAlone(Locals)
  /\ AsAlone(parked)
  /\ pc # "thrown" /\ parked.pc # "thrown"
  /\ pc = "returned" => Len(outcomes) = Len(elements)
  /\ parked.pc = "returned" => Len(parked.outcomes) = Len(parked.elements)

\* both calls have drawn an element and wait for an image at the same time
C17_Witness ==
  /\ pc = "loading"
  /\ parked.pc = "loading"
  /\ Len(outcomes) >= 1
  /\ Len(parked.outcomes) >= 1
  /\ outcomes[1].what \in {"text", "noSource"}

\* the context attributes that bear on what a draw call puts on the canvas
Effective(op) ==
  [kind |-> op.kind, rect |-> op.rect, arg |-> op.arg, clip |-> op.ctx.clip,
   fillStyle |-> IF op.kind \in {"fillRect", "fillText"} THEN op.ctx.fillStyle ELSE "",
   strokeStyle |-> IF op.kind = "strokeRect" THEN op.ctx.strokeStyle ELSE "",
   font |-> IF op.kind = "fillText" THEN op.ctx.font ELSE Font("", 0, ""),
   textAlign |-> IF op.kind = "fillText" THEN op.ctx.textAlign ELSE "",
   textBaseline |-> IF op.kind = "fillText" THEN op.ctx.textBaseline ELSE ""]

\* the context an element finds when it is the first of the template
ContextOfFirst == [NewContext EXCEPT !.fillStyle = "white"]

\* C29: the draw calls of an element, with the attributes that bear on them,
\* are those the same element with the same value and the same outcome issues
\* as the first element of a template.
C29_DrawsIndependentOfHistory ==
  \A i \in 1..Len(outcomes) :
    \E res \in ElementResults(i, ContextOfFirst, elements[i],
                              params[elements[i].variableName], outcomes[i]) :
      /\ Len(res.ops) = Len(OpsOf(i))
      /\ \A k \in 1..Len(res.ops) : Effective(OpsOf(i)[k]) = Effective(res.ops[k])

----------------------------------------------------------------------------
(* Properties of the FontManager *)

\* the families getSystemFont and getFallbackFont can give
GenericFamilies ==
  { "Impact", "Arial", "Times New Roman", "Comic Sans MS", "Courier New",
    "Times New Roman, serif", "Courier New, monospace", "Comic Sans MS, cursive",
    "Arial, sans-serif" }

\* C15: every ensureFontAvailable call has returned a generic family in the
\* run of the call, wherever its registration stands (waiting for a fetch,
\* registering, finished or failed); the registration goes on by itself and
\* ends with a family name, never with an error for the caller.
C15_EnsureNeverBlocks ==
  /\ Len(ensured) = Len(registrations)
  /\ \A k \in 1..Len(ensured) :
       /\ ensured[k].returned
       /\ ensured[k].value.lit \in GenericFamilies
       /\ ensured[k].reg = k
       /\ registrations[k].family = ensured[k].family
       /\ registrations[k].pc \in {"css", "cssText", "font", "buffer", "register", "done"}
       /\ registrations[k].pc = "done" => registrations[k].result # NoFont

\* a call that has returned while its registration waits for the font file,
\* next to a registration that ended in the catch block
C15_Witness ==
  \E k, j \in 1..Len(ensured) :
    /\ ensured[k].returned
    /\ registrations[k].pc = "font"
    /\ registrations[j].pc = "done"
    /\ FontMapGet(registrations[j].family).defined
    /\ registrations[j].result = GetFallbackFont(registrations[j].family)

\* C16: each font file is downloaded at most once, whatever the interleaving
\* of the calls for its family.
C16_SingleDownload ==
  \A a, b \in fetched : a.file = b.file => a.by = b.by

EndsWith(s, suffix) ==
  Len(s) >= Len(suffix) /\ SubSeq(s, Len(s) - Len(suffix) + 1, Len(s)) = suffix

\* the generic keyword a family name ends with
GenericKeyword(fontFamily) ==
  IF EndsWith(fontFamily, <<"s", "a", "n", "s", "-", "s", "e", "r", "i", "f">>) THEN "sans-serif"
  ELSE IF EndsWith(fontFamily, <<"s", "e", "r", "i", "f">>) THEN "serif"
  ELSE IF EndsWith(fontFamily, <<"m", "o", "n", "o", "s", "p", "a", "c", "e">>) THEN "monospace"
  ELSE IF EndsWith(fontFamily, <<"c", "u", "r", "s", "i", "v", "e">>) THEN "cursive"
  ELSE "none"

FallbackOfClass(keyword) ==
  IF keyword = "serif" THEN "Times New Roman, serif"
  ELSE IF keyword = "monospace" THEN "Courier New, monospace"
  ELSE IF keyword = "cursive" THEN "Comic Sans MS, cursive"
  ELSE "Arial, sans-serif"

\* C19: registerFont gives a family that is not in the font map the fallback
\* of the class of its generic keyword: serif, sans-serif, monospace or
\* cursive, and sans-serif for a family without a keyword.
C19_FallbackByKeyword ==
  \A k \in 1..Len(registrations) :
    registrations[k].pc = "done" /\ ~FontMapGet(registrations[k].family).defined =>
      registrations[k].result.lit = FallbackOfClass(GenericKeyword(registrations[k].family))

\* C30: the registerFont calls for one family of the font map that end
\* outside the catch block return one and the same family name, and a family
\* in registeredFonts has a font file of one of its weights (no file is ever
\* removed, so a family registered with no file shows in the state that
\* follows its registration).
C30_FontCacheConsistent ==
  /\ \A k, j \in 1..Len(registrations) :
       (/\ registrations[k].pc = "done"
        /\ registrations[j].pc = "done"
        /\ registrations[k].family = registrations[j].family
        /\ FontMapGet(registrations[k].family).defined
        /\ registrations[k].result # GetFallbackFont(registrations[k].family)
        /\ registrations[j].result # GetFallbackFont(registrations[j].family)) =>
         registrations[k].result = registrations[j].result
  /\ \A google \in registeredFonts :
       \E w \in 1..Len(Weights) : FontFile(google, Weights[w]) \in fontFiles

----------------------------------------------------------------------------
(* Properties of the scheduler *)

\* a minute as a number that grows with the time (no month has more than 31
\* days, no day more than 24 hours)
MinuteNumber(t) == (((t.year * 12 + t.month) * 31 + t.day) * 24 + t.hour) * 60 + t.minute

\* the schedules a tick at the minute now has to execute
ToExecuteAt(now) ==
  { id \in DOMAIN template_schedules :
      /\ ~template_schedules[id].is_executed
      /\ template_schedules[id].group_id \in DOMAIN template_groups
      /\ MinuteNumber(template_schedules[id]) <= MinuteNumber(now) }

ActiveGroups == { g \in DOMAIN template_groups : template_groups[g].is_active }

\* no executeSchedule and no activateTemplateGroup is between its first
\* update and its return
NoActivationInFlight ==
  /\ \A i \in 1..Len(ticks) : ticks[i].pc \notin {"deactivate", "activate", "mark"}
  /\ \A j \in 1..Len(activations) : activations[j].pc = "done"

\* C23: a step never leaves two active groups in a state with no activation
\* in flight, and the step that completes activateTemplateGroup for a group
\* that exists leaves that group as the only active one.
C23_OneActiveGroup ==
  [][/\ NoActivationInFlight' => Cardinality(ActiveGroups') <= 1
     /\ \A j \in 1..Len(activations) :
          (/\ activations[j].pc = "activate"
           /\ activations'[j].status = 200
           /\ activations[j].group_id \in DOMAIN template_groups) =>
            ActiveGroups' = {activations[j].group_id}
    ]_vars

\* C24: executeSchedule activates the group of a schedule only when no
\* executeSchedule has activated it for that schedule before and the schedule
\* is not marked executed.
C24_ActivatedOnce ==
  [][\A i \in 1..Len(ticks) :
       (/\ ticks[i].pc = "activate"
        /\ ticks'[i].pc = "mark"
        /\ ticks[i].due[ticks[i].k].group_id \in DOMAIN template_groups) =>
         /\ ticks[i].due[ticks[i].k].id \notin executions
         /\ ~template_schedules[ticks[i].due[ticks[i].k].id].is_executed
    ]_vars

\* C25: a tick that found several schedules ends with every one of them
\* marked executed and with the group of the last of them, the one with the
\* latest time, as the active group.
C25_TickEndsWithLatest ==
  [][\A i \in 1..Len(ticks) :
       (/\ ticks[i].pc # "done"
        /\ ticks'[i].pc = "done"
        /\ Len(ticks[i].due) >= 2) =>
         /\ \A n \in 1..Len(ticks[i].due) : template_schedules'[ticks[i].due[n].id].is_executed
         /\ ActiveGroups' = {ticks[i].due[Len(ticks[i].due)].group_id}
    ]_vars

\* C26: template_schedules has at most one row for a minute, and a request
\* answered 200 is the only one answered 200 for its minute.
C26_OneSchedulePerTime ==
  /\ \A a, b \in DOMAIN template_schedules :
       MinuteNumber(template_schedules[a]) = MinuteNumber(template_schedules[b]) => a = b
  /\ \A i, j \in 1..Len(posts) :
       (/\ posts[i].status = 200
        /\ posts[j].status = 200
        /\ ExistingSchedules(template_schedules, posts[i].body)
             = ExistingSchedules(template_schedules, posts[j].body)) => i = j

----------------------------------------------------------------------------
(* Properties of the template routes *)

AllCallsDone == \A c \in 1..Len(calls) : calls[c].pc = "done"

\* the rows of canvas_variables of a template are one per stored element
RowsMatch(id) ==
  LET stored == JsonParse(canvas_templates[id].elements)
      rows == { v \in canvas_variables : v.template_id = id }
  IN  /\ Cardinality(rows) = Len(stored)
      /\ \A e \in 1..Len(stored) :
           \E v \in rows :
             /\ v.variable_name = stored[e].variableName
             /\ v.element_id = stored[e].id
             /\ v.element_type = stored[e].data.type
             /\ v.default_value = DefaultValue(stored[e])

\* C27: when every template operation has completed, the rows of
\* canvas_variables of every stored template are exactly one per element of
\* its stored elements, with the element's content or src as default_value,
\* and no row belongs to a template that is not stored.
C27_VariablesMatchTemplate ==
  AllCallsDone =>
    /\ \A id \in DOMAIN canvas_templates : RowsMatch(id)
    /\ \A v \in canvas_variables : v.template_id \in DOMAIN canvas_templates

UploadsPrefix == <<"B", "A", "S", "E", "_", "U", "R", "L", "/", "u", "p", "l", "o", "a", "d", "s", "/">>

\* the stored string is the written one, or the URL of its converted image
WrittenOrConverted(stored, written) ==
  \/ stored = written
  \/ /\ Truthy(written)
     /\ StartsWith(written.str, DataImagePrefix)
     /\ Truthy(stored)
     /\ StartsWith(stored.str, UploadsPrefix)

\* the stored row holds the config and the elements of the body
HoldsBody(row, body) ==
  LET background == JsonParse(row.config).backgroundImage
      stored == JsonParse(row.elements)
      written == body.elements.list
  IN  /\ WrittenOrConverted(background, body.config.backgroundImage)
      /\ Len(stored) = Len(written)
      /\ \A e \in 1..Len(written) :
           /\ stored[e].id = written[e].id
           /\ stored[e].variableName = written[e].variableName
           /\ stored[e].data.type = written[e].data.type
           /\ stored[e].data.content = written[e].data.content
           /\ WrittenOrConverted(stored[e].data.src, written[e].data.src)

\* C28: once a PUT /templates/:id that answered 200 and a GET /templates
\* have both finished, the stored config and elements of the template are
\* those the PUT wrote, possibly with their images converted.
C28_UpdateNotLost ==
  \A p, g \in 1..Len(calls) :
    ( /\ AllCallsDone
      /\ calls[p].route = "PUT"
      /\ calls[p].status = 200
      /\ calls[g].route = "GET" )
    => HoldsBody(canvas_templates[calls[p].id], calls[p].body)

=============================================================================
